---- MODULE Spec2Model ----
(***************************************************************************)
(* The BuyAirtime component (components/BuyAirtime.tsx, src/unnamed/part_001)*)
(* as mounted by app/page.tsx: React state, the rendered view whose closures *)
(* the event handlers run with, the wallet/ledger and HTTP collaborators as  *)
(* nondeterministic environments, and one process per execution of           *)
(* handleConfirmedSubmit, suspended at each await.                           *)
(***************************************************************************)
EXTENDS Integers, Sequences, FiniteSets, TLC

VARIABLES
    selectedCountry,    \* useState("")
    selectedOperator,   \* useState("")
    selectedAmount,     \* useState(null): a catalog entry or Null
    recipientPhone,     \* useState(""): a sequence of characters
    isSubmitting,       \* useState(false)
    showConfirmModal,   \* useState(false)
    showErrorModal,     \* useState(false)
    errorMessage,       \* useState(""): a sequence of words
    countries,          \* useState([])
    isLoading,          \* useState(true)
    transactionStatus,  \* useState("")
    view,               \* the values of the last render: what the DOM shows and the handlers' closures hold
    fetchPc,            \* position of the fetchCountries effect
    alert,              \* the message of the window.alert() box that is open, or NoAlert
    pay,                \* the component of a contract-call revision: its state and its execution
    wallet,             \* the wagmi hooks: isConnected, hasClient (walletClient and address), publicClient
    chainId,            \* the chain the public client is connected to
    subs,               \* the executions of handleConfirmedSubmit that are tracked
    activeTab           \* the caller's tab, written through the setActiveTab prop

uiVars  == <<selectedCountry, selectedOperator, selectedAmount, recipientPhone,
             isSubmitting, showConfirmModal, showErrorModal, errorMessage,
             countries, isLoading, transactionStatus>>
formVars == <<selectedCountry, selectedOperator, selectedAmount, recipientPhone>>
envVars == <<wallet, chainId>>
vars == <<selectedCountry, selectedOperator, selectedAmount, recipientPhone,
          isSubmitting, showConfirmModal, showErrorModal, errorMessage,
          countries, isLoading, transactionStatus, view, fetchPc, alert, pay, wallet,
          chainId, subs, activeTab>>

----------------------------------------------------------------------------
(* Bounds of the model *)

\* executions of handleConfirmedSubmit that can be in flight at once; a finished
\* execution's record is kept until a later execution takes its place
MaxInFlight == 2

----------------------------------------------------------------------------
(* Program constants *)

Null == [null |-> TRUE]

\* token decimals: parseUnits(..., 6), formatUnits(..., 6)
USDC_DECIMALS == 6

\* chainId === 1 selects the mainnet token address
MAINNET_CHAIN_ID == 1

USDC_MAINNET == "0xA0b86991c6218b36c1d19D4a2e9Eb0cE3606eB48"
USDC_BASE == "0x833589fCD6eDb6E08f4c7C32D4f71b54bdA02913"
CONTRACT_ADDRESS == "0xaF108Dd1aC530F1c4BdED13f43E336A9cec92B44"

\* the setActiveTab prop as the page passes it: <BuyAirtime /> passes none
setActiveTabProp == "undefined"

----------------------------------------------------------------------------
(* Decimal numbers, strings and the viem unit conversions *)

RECURSIVE Pow10(_)
Pow10(n) == IF n = 0 THEN 1 ELSE 10 * Pow10(n - 1)

\* the integer written by a sequence of decimal digits
RECURSIVE DigitsToInt(_)
DigitsToInt(ds) ==
    IF ds = <<>> THEN 0
    ELSE 10 * DigitsToInt(SubSeq(ds, 1, Len(ds) - 1)) + ds[Len(ds)]

RECURSIVE DigitsToString(_)
DigitsToString(ds) ==
    IF ds = <<>> THEN "" ELSE ToString(Head(ds)) \o DigitsToString(Tail(ds))

\* fraction.replace(/(0+)$/, ''), on a sequence of digits
RECURSIVE TrimZeros(_)
TrimZeros(ds) ==
    IF ds # <<>> /\ ds[Len(ds)] = 0 THEN TrimZeros(SubSeq(ds, 1, Len(ds) - 1)) ELSE ds

\* A JavaScript number of the catalog is written as its shortest decimal
\* expansion: [whole |-> integer part, frac |-> the digits after the point].
\* Number.prototype.toString (also what a template literal gives): plain
\* digits from 1e-6 on, exponent notation below 1e-6. Exponent notation from
\* 1e21 on is outside the integers TLC computes with: whole stays below 2^31.
NumberToString(d) ==
    LET RECURSIVE LeadingZeros(_)
        LeadingZeros(ds) ==
            IF ds # <<>> /\ Head(ds) = 0 THEN 1 + LeadingZeros(Tail(ds)) ELSE 0
        f == TrimZeros(d.frac)
        z == LeadingZeros(f)
        m == SubSeq(f, z + 1, Len(f))
    IN  IF d.whole = 0 /\ f # <<>> /\ z >= 6
        THEN ToString(Head(m))
             \o (IF Len(m) > 1 THEN "." \o DigitsToString(Tail(m)) ELSE "")
             \o "e-" \o ToString(z + 1)
        ELSE ToString(d.whole) \o (IF f = <<>> THEN "" ELSE "." \o DigitsToString(f))

\* characters of a string
CharAt(str, i) == SubSeq(str, i, i)

\* the characters [0-9]
Digits == {"0", "1", "2", "3", "4", "5", "6", "7", "8", "9"}

\* the value of a character of Digits
DigitOf(c) == CHOOSE n \in 0..9 : ToString(n) = c

\* BigInt(str) for a string of decimal digits; BigInt("") is 0
RECURSIVE StringToInt(_)
StringToInt(str) ==
    IF str = "" THEN 0
    ELSE 10 * StringToInt(SubSeq(str, 1, Len(str) - 1)) + DigitOf(CharAt(str, Len(str)))

\* position of the first "." in str, 0 when there is none
RECURSIVE DotAt(_, _)
DotAt(str, i) ==
    IF i > Len(str) THEN 0 ELSE IF CharAt(str, i) = "." THEN i ELSE DotAt(str, i + 1)

\* 0.a >= 0.b for strings of decimal digits
RECURSIVE FractionGeq(_, _)
FractionGeq(a, b) ==
    IF b = "" THEN TRUE
    ELSE LET x == IF a = "" THEN 0 ELSE DigitOf(CharAt(a, 1))
             y == DigitOf(CharAt(b, 1))
         IN  IF x > y THEN TRUE
             ELSE IF x < y THEN FALSE
             ELSE FractionGeq(SubSeq(a, 2, Len(a)), SubSeq(b, 2, Len(b)))

\* Number(`${unit}.${right}`) is the double nearest to the decimal, so it
\* reaches unit + 0.5 from half the gap to the double below unit + 0.5 on:
\* 0.5 - 2^-55 for unit 0, 0.5 - 2^-53 for 1, 0.5 - 2^-52 for 2 and 3,
\* 0.5 - 2^-51 for 4 to 7, 0.5 - 2^-50 for 8 and 9 (fraction digits)
\* Math.round(Number(`${unit}.${right}`))
RoundUnit(unit, right) ==
    LET halfway ==
            IF unit = 0 THEN "4999999999999999722444243843710864894092082977294921875"
            ELSE IF unit = 1 THEN "49999999999999988897769753748434595763683319091796875"
            ELSE IF unit <= 3 THEN "4999999999999997779553950749686919152736663818359375"
            ELSE IF unit <= 7 THEN "499999999999999555910790149937383830547332763671875"
            ELSE "49999999999999911182158029987476766109466552734375"
    IN  IF FractionGeq(right, halfway) THEN unit + 1 ELSE unit

\* the test of viem parseUnits: /^(-?)([0-9]*)\.?([0-9]*)$/.test(value); a
\* value that fails it makes parseUnits throw InvalidDecimalNumberError
ValidDecimalNumber(value) ==
    LET body == IF value # "" /\ CharAt(value, 1) = "-" THEN SubSeq(value, 2, Len(value))
                ELSE value
        dot  == DotAt(body, 1)
    IN  \A i \in 1..Len(body) : i = dot \/ CharAt(body, i) \in Digits

\* the message of InvalidDecimalNumberError: the value between grave accents,
\* then the line with the version that viem's BaseError adds
MsgInvalidDecimal(value) ==
    LET grave == SubSeq("`'", 1, 1)
    IN  "Number " \o grave \o value \o grave
        \o " is not a valid decimal number.\n\nVersion: viem@2.x"

\* viem parseUnits(value, decimals) on a string that passes the test: the
\* fraction is padded to `decimals` digits, or, when longer, rounded at digit
\* `decimals` by Math.round of that digit followed by the rest
ParseUnits(value, decimals) ==
    LET \* fraction.replace(/(0+)$/, '')
        RECURSIVE TrimZerosString(_)
        TrimZerosString(str) ==
            IF str # "" /\ CharAt(str, Len(str)) = "0"
            THEN TrimZerosString(SubSeq(str, 1, Len(str) - 1)) ELSE str
        negative == value # "" /\ CharAt(value, 1) = "-"
        body     == IF negative THEN SubSeq(value, 2, Len(value)) ELSE value
        dot      == DotAt(body, 1)
        integer  == IF dot = 0 THEN body ELSE SubSeq(body, 1, dot - 1)
        fraction == TrimZerosString(IF dot = 0 THEN "0"
                                    ELSE SubSeq(body, dot + 1, Len(body)))
        scaled ==
            IF decimals = 0
            THEN StringToInt(integer) + (IF RoundUnit(0, fraction) = 1 THEN 1 ELSE 0)
            ELSE IF Len(fraction) > decimals
            THEN StringToInt(integer) * Pow10(decimals)
                 + StringToInt(SubSeq(fraction, 1, decimals - 1)) * 10
                 + RoundUnit(DigitOf(CharAt(fraction, decimals)),
                             SubSeq(fraction, decimals + 1, Len(fraction)))
            ELSE StringToInt(integer) * Pow10(decimals)
                 + StringToInt(fraction) * Pow10(decimals - Len(fraction))
    IN  IF negative THEN 0 - scaled ELSE scaled

\* viem formatUnits(value, decimals)
FormatUnits(v, decimals) ==
    LET negative == v < 0
        \* display: the digits without the sign
        display == IF negative THEN 0 - v ELSE v
        whole == display \div Pow10(decimals)
        \* the fraction's digits, padded with zeros at the front
        padded == [i \in 1..decimals |->
                      ((display % Pow10(decimals)) \div Pow10(decimals - i)) % 10]
        frac  == TrimZeros(padded)
    IN  (IF negative THEN "-" ELSE "") \o ToString(whole)
        \o (IF frac = <<>> THEN "" ELSE "." \o DigitsToString(frac))

----------------------------------------------------------------------------
(* Thrown values and error messages *)

\* String.prototype.includes
Includes(msg, pat) ==
    \E i \in 0..(Len(msg) - Len(pat)) : SubSeq(msg, i + 1, i + Len(pat)) = pat

\* new Error(message)
Error(message) == [thrown |-> TRUE, isError |-> TRUE, message |-> message]

\* nothing was thrown
NoError == [thrown |-> FALSE, isError |-> FALSE, message |-> ""]

MsgWalletFailed == "Wallet connection failed. Please try again."
MsgBalanceCheckFailed ==
    "Failed to check USDC balance. Please ensure you're connected to the correct network."
MsgPaymentFailed == "Payment failed. Please try again."
MsgApprovalReverted == "USDC approval transaction was reverted"
MsgTransferReverted == "USDC transfer transaction was reverted"
MsgResponseNotOk == "Network response was not ok"
MsgRejected == "Transaction was rejected. Please try again."
MsgNetworkError ==
    "Network error. Please check your connection and ensure you're on the correct network."
MsgUnsuccessful == "Transaction unsuccessful. Please try again."
MsgWalletNotConnected == "Wallet not connected"
MsgNotAFunction == "setActiveTab is not a function"

MsgInsufficient(balance, usdcValue) ==
    "Insufficient USDC balance. You have " \o FormatUnits(balance, USDC_DECIMALS)
    \o " USDC, but " \o NumberToString(usdcValue) \o " USDC is required."

\* errors of the collaborators
MsgRpcFailed == "HTTP request failed."
MsgUserRejected == "User rejected the request."
MsgSimulationFailed == "The contract function reverted."
MsgReceiptTimeout == "Timed out while waiting for transaction to be confirmed."
MsgFailedToFetch == "Failed to fetch"
MsgBadJson == "Unexpected token < in JSON at position 0"
MsgServiceError == "Topup provider unavailable"
MsgOperatorNetwork == "Operator network unavailable"
\* a rejection with a value that is not an Error: the code a wallet provider
\* rejects with when it does not wrap it
ProviderRejection == [thrown |-> TRUE, isError |-> FALSE, message |-> "4001"]

\* checkUsdcBalance's catch: every error of the read is replaced
WrapBalanceError(e) == Error(MsgBalanceCheckFailed)

\* handleConfirmedSubmit's catch around transferUsdcDirectly: every error is replaced
WrapTransferError(e) == Error(MsgPaymentFailed)

\* the message the catch block of handleConfirmedSubmit shows for the thrown
\* value `e`
\* ReportedMessage without the branch that keeps an insufficient-funds message
ReportedMessageGeneric(e) ==
    IF ~e.isError THEN MsgUnsuccessful
    ELSE IF Includes(e.message, "user rejected") THEN MsgRejected
    ELSE IF Includes(e.message, "network") THEN MsgNetworkError
    ELSE MsgUnsuccessful

ReportedMessage(e) ==
    IF ~e.isError THEN MsgUnsuccessful
    ELSE IF Includes(e.message, "user rejected") THEN MsgRejected
    ELSE IF Includes(e.message, "insufficient funds") \/ Includes(e.message, "Insufficient")
    THEN e.message
    ELSE IF Includes(e.message, "network") THEN MsgNetworkError
    ELSE e.message

----------------------------------------------------------------------------
(* The catalog served by GET /services-data, and the other inputs *)

Nigeria == "Nigeria"

Mtn500 == [network_operator |-> "MTN", operator_id |-> "341", amount |-> 500,
           currency |-> "NGN", usdc_value |-> [whole |-> 0, frac |-> <<3, 3>>]]
Airtel100 == [network_operator |-> "Airtel", operator_id |-> "342", amount |-> 100,
              currency |-> "NGN",
              usdc_value |-> [whole |-> 0, frac |-> <<0, 7, 1, 2, 3, 4, 5>>]]

\* a price below 1e-6: the number 1e-7
Airtel5 == [network_operator |-> "Airtel", operator_id |-> "342", amount |-> 5,
            currency |-> "NGN",
            usdc_value |-> [whole |-> 0, frac |-> <<0, 0, 0, 0, 0, 0, 1>>]]

Catalog == <<[name |-> Nigeria, airtime |-> <<Mtn500, Airtel100, Airtel5>>]>>

\* "0801234567" and "08012345678"
Phone10 == <<"0", "8", "0", "1", "2", "3", "4", "5", "6", "7">>
Phone11 == <<"0", "8", "0", "1", "2", "3", "4", "5", "6", "7", "8">>
\* "0801234567x": 11 characters that are not all digits
PhoneAlpha == <<"0", "8", "0", "1", "2", "3", "4", "5", "6", "7", "x">>
Phones == {Phone10, Phone11, PhoneAlpha}

\* values the balanceOf and allowance reads return (token base units)
Balances == {100000, 330000, 1000000}
Allowances == {0, 330000}

\* mainnet and Base
ChainIds == {MAINNET_CHAIN_ID, 8453}

----------------------------------------------------------------------------
(* React state and the rendered view *)

NoHash == ""

\* no alert box is open
NoAlert == ""

\* no body of a non-2xx answer has been read
NoBody == [hasError |-> FALSE, error |-> ""]

\* an execution of handleConfirmedSubmit that has not started
NoSub ==
    [pc |-> "idle",
     \* the closure of the render the handler was created in
     selectedAmount |-> Null, recipientPhone |-> <<>>,
     isConnected |-> FALSE, hasClient |-> FALSE, publicClient |-> FALSE,
     \* whether the wagmi session was established when the wallet check ran
     session |-> FALSE,
     \* locals
     amountInWei |-> -1, balanceToken |-> "", balance |-> -1,
     usdcAddress |-> "", allowance |-> -1,
     \* the parameter of transferUsdcDirectly; the args of the approve and of
     \* the transfer request
     amount |-> -1, approveArgs |-> <<>>, transferArgs |-> <<>>,
     approveTxHash |-> NoHash, transferTxHash |-> NoHash, txHash |-> NoHash,
     approveReceipt |-> "none", transferReceipt |-> "none", response |-> "none",
     \* what the execution did, in order
     trace |-> <<>>, posts |-> <<>>,
     \* how it ended: the error first thrown, the message shown
     \* the error that reached the catch of handleConfirmedSubmit; the body of a
     \* non-2xx answer
     outcome |-> "none", failedAt |-> "", cause |-> NoError, thrown |-> NoError,
     errorData |-> NoBody, reported |-> ""]

\* the component of a contract-call revision (part_000, part_002,
\* Components.tsx) before it is mounted: its state hooks, the locals of its
\* handleConfirmedSubmit and what the latest execution did
NoPay ==
    [variant |-> "none", pc |-> "idle",
     \* the catalog and the selects of part_000 and part_002
     countries |-> <<>>, isLoading |-> FALSE, fetchPc |-> "none",
     selectedCountry |-> "", selectedOperator |-> "",
     \* useState(null) of part_000 and part_002; useState("") of Components.tsx
     selectedAmount |-> Null, amount |-> "",
     recipientPhone |-> <<>>,
     \* the values the running handleConfirmedSubmit holds: those of the render
     \* in which Confirm was activated
     closure |-> [selectedAmount |-> Null, amount |-> "", recipientPhone |-> <<>>],
     isSubmitting |-> FALSE, showConfirmModal |-> FALSE, showErrorModal |-> FALSE,
     errorMessage |-> "",
     \* the caller's tab, written through the setActiveTab prop
     activeTab |-> "home",
     \* locals
     amountInWei |-> -1, txHash |-> NoHash, receipt |-> "none", response |-> "none",
     \* what the execution did, in order; the error that reached the catch
     trace |-> <<>>, posts |-> <<>>, thrown |-> NoError]

\* what a render reads: the state hooks and the wagmi hooks
Snapshot ==
    [selectedCountry |-> selectedCountry, selectedOperator |-> selectedOperator,
     selectedAmount |-> selectedAmount, recipientPhone |-> recipientPhone,
     isSubmitting |-> isSubmitting, showConfirmModal |-> showConfirmModal,
     showErrorModal |-> showErrorModal, errorMessage |-> errorMessage,
     countries |-> countries, isLoading |-> isLoading,
     transactionStatus |-> transactionStatus,
     isConnected |-> wallet.isConnected, hasClient |-> wallet.hasClient,
     publicClient |-> wallet.publicClient]

Init ==
    /\ selectedCountry = ""
    /\ selectedOperator = ""
    /\ selectedAmount = Null
    /\ recipientPhone = <<>>
    /\ isSubmitting = FALSE
    /\ showConfirmModal = FALSE
    /\ showErrorModal = FALSE
    /\ errorMessage = ""
    /\ countries = <<>>
    /\ isLoading = TRUE
    /\ transactionStatus = ""
    /\ fetchPc = "fetching"
    /\ \E pc \in BOOLEAN :
         wallet \in {[isConnected |-> FALSE, hasClient |-> FALSE, publicClient |-> pc],
                     [isConnected |-> TRUE, hasClient |-> TRUE, publicClient |-> pc]}
    /\ chainId \in ChainIds
    /\ subs = [s \in 1..MaxInFlight |-> NoSub]
    /\ activeTab = "home"
    /\ alert = NoAlert
    /\ pay = NoPay
    /\ view = Snapshot

\* React re-renders the component with the current state
Render ==
    /\ view # Snapshot
    /\ view' = Snapshot
    /\ UNCHANGED <<uiVars, fetchPc, alert, pay, envVars, subs, activeTab>>

----------------------------------------------------------------------------
(* The catalog fetch effect *)

MsgLoadFailed == "Failed to load countries. Please try again later."

\* ValidCatalogBody without Array.isArray
ValidCatalogBodyAnyMember(body) == body.hasCountries

\* data && data.countries && Array.isArray(data.countries)
ValidCatalogBody(body) == body.hasCountries /\ body.isArray

CatalogBodies ==
    {[hasCountries |-> TRUE, isArray |-> TRUE, countries |-> Catalog],
     [hasCountries |-> FALSE, isArray |-> FALSE, countries |-> <<>>],
     [hasCountries |-> TRUE, isArray |-> FALSE, countries |-> <<>>]}

\* the catch block of fetchCountries, then its finally
fetchCountriesFails ==
    /\ fetchPc' = "done"
    /\ errorMessage' = MsgLoadFailed
    /\ showErrorModal' = TRUE
    /\ isLoading' = FALSE
    /\ UNCHANGED countries

\* `await fetch(.../services-data)` settles: it rejects, or it resolves with
\* an answer that is ok or not; an ok answer is read at the next await
fetchCountriesResponds ==
    /\ fetchPc = "fetching"
    /\ \E rejected \in BOOLEAN, ok \in BOOLEAN :
         IF ~rejected /\ ok
         THEN /\ fetchPc' = "json"
              /\ UNCHANGED <<countries, errorMessage, showErrorModal, isLoading>>
         ELSE fetchCountriesFails
    /\ UNCHANGED <<formVars, isSubmitting, showConfirmModal, transactionStatus, view,
                   alert, pay, envVars, subs, activeTab>>

\* `await res.json()` settles: it rejects, or it resolves with the body
fetchCountriesParsed ==
    /\ fetchPc = "json"
    /\ \E rejected \in BOOLEAN, body \in CatalogBodies :
         IF ~rejected /\ ValidCatalogBody(body)
         THEN /\ fetchPc' = "done"
              /\ countries' = body.countries
              /\ isLoading' = FALSE
              /\ UNCHANGED <<errorMessage, showErrorModal>>
         ELSE fetchCountriesFails
    /\ UNCHANGED <<formVars, isSubmitting, showConfirmModal, transactionStatus, view,
                   alert, pay, envVars, subs, activeTab>>

\* the effect that runs once after the first render
fetchCountries == fetchCountriesResponds \/ fetchCountriesParsed

----------------------------------------------------------------------------
(* The form *)

RECURSIVE SeqToSet(_)
SeqToSet(q) == IF q = <<>> THEN {} ELSE {Head(q)} \cup SeqToSet(Tail(q))

RECURSIVE SelectSeq2(_, _, _)
\* Array.prototype.filter on network_operator
SelectSeq2(q, field, val) ==
    IF q = <<>> THEN <<>>
    ELSE (IF Head(q)[field] = val THEN <<Head(q)>> ELSE <<>>) \o SelectSeq2(Tail(q), field, val)

\* countries.find(c => c.name === selectedCountry)?.services.airtime || []
getSelectedCountryOperators(cs, country) ==
    LET hit == SelectSeq2(cs, "name", country) IN
    IF hit = <<>> THEN <<>> ELSE Head(hit).airtime

getOperatorAmounts(cs, country, operator) ==
    SelectSeq2(getSelectedCountryOperators(cs, country), "network_operator", operator)

\* getOperatorAmounts().find(service => service.amount.toString() === value) || null
FindAmount(services, value) ==
    LET RECURSIVE Find(_)
        Find(q) == IF q = <<>> THEN Null
                   ELSE IF ToString(Head(q).amount) = value THEN Head(q) ELSE Find(Tail(q))
    IN Find(services)

SelectCountry ==
    /\ ~view.isLoading
    /\ \E c \in {""} \cup {cn.name : cn \in SeqToSet(view.countries)} :
         /\ selectedCountry' = c
         /\ selectedOperator' = ""
         /\ selectedAmount' = Null
    /\ UNCHANGED <<recipientPhone, isSubmitting, showConfirmModal, showErrorModal,
                   errorMessage, countries, isLoading, transactionStatus, view, fetchPc, alert, pay,
                   envVars, subs, activeTab>>

\* SelectOperator without setSelectedAmount(null)
SelectOperatorKeepsAmount ==
    /\ view.selectedCountry # ""
    /\ ~view.isLoading
    /\ \E o \in {""} \cup {e.network_operator :
                  e \in SeqToSet(getSelectedCountryOperators(view.countries, view.selectedCountry))} :
         selectedOperator' = o
    /\ UNCHANGED <<selectedCountry, selectedAmount, recipientPhone, isSubmitting,
                   showConfirmModal, showErrorModal, errorMessage, countries, isLoading,
                   transactionStatus, view, fetchPc, alert, pay, envVars, subs, activeTab>>

SelectOperator ==
    /\ view.selectedCountry # ""
    /\ ~view.isLoading
    /\ \E o \in {""} \cup {e.network_operator :
                  e \in SeqToSet(getSelectedCountryOperators(view.countries, view.selectedCountry))} :
         /\ selectedOperator' = o
         /\ selectedAmount' = Null
    /\ UNCHANGED <<selectedCountry, recipientPhone, isSubmitting, showConfirmModal,
                   showErrorModal, errorMessage, countries, isLoading, transactionStatus,
                   view, fetchPc, alert, pay, envVars, subs, activeTab>>

SelectAmount ==
    /\ view.selectedOperator # ""
    /\ ~view.isLoading
    /\ LET offered == getOperatorAmounts(view.countries, view.selectedCountry,
                                         view.selectedOperator) IN
       \E v \in {""} \cup {ToString(e.amount) : e \in SeqToSet(offered)} :
         selectedAmount' = FindAmount(offered, v)
    /\ UNCHANGED <<selectedCountry, selectedOperator, recipientPhone, isSubmitting,
                   showConfirmModal, showErrorModal, errorMessage, countries, isLoading,
                   transactionStatus, view, fetchPc, alert, pay, envVars, subs, activeTab>>

InputPhone ==
    /\ ~view.isLoading
    /\ \E p \in Phones : recipientPhone' = p
    /\ UNCHANGED <<selectedCountry, selectedOperator, selectedAmount, isSubmitting,
                   showConfirmModal, showErrorModal, errorMessage, countries, isLoading,
                   transactionStatus, view, fetchPc, alert, pay, envVars, subs, activeTab>>


\* ElevenDigits without the digit class: any 11 characters
ElevenCharacters(phone) == Len(phone) = 11

\* /^\d{11}$/.test(phone)
ElevenDigits(phone) == Len(phone) = 11 /\ \A i \in 1..Len(phone) : phone[i] \in Digits

\* the checks of handleSubmitForm, on the values of the render it was created in
FormValid(v) ==
    /\ v.selectedCountry # ""
    /\ v.selectedOperator # ""
    /\ v.selectedAmount # Null
    /\ v.recipientPhone # <<>>
    /\ ElevenDigits(v.recipientPhone)

\* the message of the first check of handleSubmitForm that fails
ValidationAlert(v) ==
    IF v.selectedCountry = "" THEN "Please select a country."
    ELSE IF v.selectedOperator = "" THEN "Please select an operator."
    ELSE IF v.selectedAmount = Null THEN "Please select an amount."
    ELSE IF v.recipientPhone = <<>> THEN "Please enter recipient phone number."
    ELSE IF ~ElevenDigits(v.recipientPhone) THEN "Please enter a valid 11-digit phone number."
    ELSE NoAlert

handleSubmitForm ==
    /\ ~view.isSubmitting
    /\ ~view.isLoading
    /\ IF FormValid(view)
       THEN showConfirmModal' = TRUE /\ UNCHANGED alert
       ELSE alert' = ValidationAlert(view) /\ UNCHANGED showConfirmModal
    /\ UNCHANGED <<formVars, isSubmitting, showErrorModal, errorMessage, countries,
                   isLoading, transactionStatus, view, fetchPc, pay, envVars, subs, activeTab>>

\* the user closes the alert box; until then alert() has not returned
AcknowledgeAlert ==
    /\ alert # NoAlert
    /\ alert' = NoAlert
    /\ UNCHANGED <<uiVars, view, fetchPc, pay, envVars, subs, activeTab>>

\* ConfirmModalShown without the showConfirmModal flag
ConfirmModalUnconditional(v) == v.selectedAmount # Null

\* the confirmation dialog is in the DOM
ConfirmModalShown(v) == v.showConfirmModal /\ v.selectedAmount # Null

\* the Edit button of the confirmation dialog, disabled={isSubmitting}
ClickEdit ==
    /\ ConfirmModalShown(view)
    /\ ~view.isSubmitting
    /\ showConfirmModal' = FALSE
    /\ UNCHANGED <<formVars, isSubmitting, showErrorModal, errorMessage, countries,
                   isLoading, transactionStatus, view, fetchPc, alert, pay, envVars, subs, activeTab>>

ClickDismiss ==
    /\ view.showErrorModal
    /\ showErrorModal' = FALSE
    /\ UNCHANGED <<formVars, isSubmitting, showConfirmModal, errorMessage, countries,
                   isLoading, transactionStatus, view, fetchPc, alert, pay, envVars, subs, activeTab>>

----------------------------------------------------------------------------
(* The wallet and the network, outside the component's control *)

\* the session changes; usePublicClient() returns the client of the wagmi
\* configuration, or undefined when the configuration has none for the chain
WalletChanges ==
    /\ \E w \in {[isConnected |-> FALSE, hasClient |-> FALSE],
                 [isConnected |-> TRUE, hasClient |-> FALSE],
                 [isConnected |-> TRUE, hasClient |-> TRUE]} :
         /\ w # [isConnected |-> wallet.isConnected, hasClient |-> wallet.hasClient]
         /\ wallet' = [wallet EXCEPT !.isConnected = w.isConnected,
                                     !.hasClient = w.hasClient]
    /\ UNCHANGED <<uiVars, view, fetchPc, alert, pay, chainId, subs, activeTab>>

ChainChanges ==
    /\ \E c \in ChainIds : c # chainId /\ chainId' = c
    /\ UNCHANGED <<uiVars, view, fetchPc, alert, pay, wallet, subs, activeTab>>

----------------------------------------------------------------------------
(* handleConfirmedSubmit, checkUsdcBalance and transferUsdcDirectly *)

\* chainId === 1 ? mainnet USDC : Base USDC
UsdcAddress(c) == IF c = MAINNET_CHAIN_ID THEN USDC_MAINNET ELSE USDC_BASE

\* mutant: the comparison the wrong way round
InsufficientBalanceInverted(balance, amount) == balance > amount

\* balance < amountInWei
InsufficientBalance(balance, amount) == balance < amount

\* mutant: the comparison the wrong way round
NeedsApprovalInverted(allowance, amount) == allowance > amount

\* mutant: an allowance equal to the amount is taken as too small
NeedsApprovalOrEqual(allowance, amount) == allowance <= amount

\* allowance < amount
NeedsApproval(allowance, amount) == allowance < amount

\* mutant: no receipt counts as reverted
RevertedNever(status) == FALSE

\* mutant: the status compared with a value receipts never carry
RevertedTypo(status) == status = "failed"

\* mutant: the test negated
RevertedInverted(status) == status # "reverted"

\* receipt.status === 'reverted'
Reverted(status) == status = "reverted"

\* mutant: the test negated
PaymentConfirmedInverted(txHash) == txHash = NoHash

\* if (txHash)
PaymentConfirmed(txHash) == txHash # NoHash

\* !response.ok
ResponseFailed(ok) == ~ok

\* mutant: the approval asks for the whole balance
ApproveArgsWholeBalance(rec) == <<CONTRACT_ADDRESS, rec.balance>>

\* approve: args: [CONTRACT_ADDRESS, amount]
ApproveArgs(rec) == <<CONTRACT_ADDRESS, rec.amount>>

\* transfer: args: [CONTRACT_ADDRESS, amount]
TransferArgs(rec) == <<CONTRACT_ADDRESS, rec.amount>>

\* the hash the wallet returns for a transaction it submitted
HashOf(s, kind) == "0x" \o kind \o ToString(s)

\* the JSON body of POST /send-topup
TopupBody(rec) ==
    [operatorId |-> rec.selectedAmount.operator_id,
     amount |-> rec.selectedAmount.amount,
     currency |-> rec.selectedAmount.currency,
     recipientPhone |-> rec.recipientPhone,
     senderPhone |-> Phone11,
     recipientEmail |-> "miniapp@aitimeplus.xyz",
     tx_hash |-> rec.txHash]

ReadErrors == {Error(MsgRpcFailed)}
SimulateErrors == {Error(MsgSimulationFailed)}
WriteErrors == {Error(MsgUserRejected), ProviderRejection}
FetchErrors == {Error(MsgFailedToFetch)}
JsonErrors == {Error(MsgBadJson)}
Receipts == {"success", "reverted"}
\* bodies of a non-2xx answer: with an `error` member (a text, a text that
\* contains the word network, the empty string) and without one
ErrorBodies == {[hasError |-> TRUE, error |-> MsgServiceError],
                [hasError |-> TRUE, error |-> MsgOperatorNetwork],
                [hasError |-> TRUE, error |-> ""],
                [hasError |-> FALSE, error |-> ""]}

flowFrame == UNCHANGED <<formVars, countries, isLoading, view, fetchPc, alert, pay, envVars>>

Did(rec, ev) == [rec EXCEPT !.trace = Append(@, ev)]

\* the execution reaches its next await
Proceed(s, rec, status, submitting) ==
    /\ subs' = [subs EXCEPT ![s] = rec]
    /\ transactionStatus' = status
    /\ isSubmitting' = submitting
    /\ UNCHANGED <<showConfirmModal, showErrorModal, errorMessage, activeTab>>

\* mutant: the catch block without setShowErrorModal(true)
\* Fails going back to the step that failed instead of reporting
FailsAndRetries(s, rec, cause, err) ==
    /\ subs' = [subs EXCEPT ![s] = [rec EXCEPT !.failedAt = rec.pc, !.cause = cause]]
    /\ UNCHANGED <<errorMessage, showConfirmModal, showErrorModal, isSubmitting,
                   transactionStatus, activeTab>>

\* Fails without setShowConfirmModal(false)
FailsKeepsDialog(s, rec, cause, err) ==
    /\ subs' = [subs EXCEPT ![s] = [rec EXCEPT !.pc = "done", !.outcome = "Failed",
                                               !.failedAt = rec.pc, !.cause = cause,
                                               !.thrown = err,
                                               !.reported = ReportedMessage(err)]]
    /\ errorMessage' = ReportedMessage(err)
    /\ showErrorModal' = TRUE
    /\ isSubmitting' = FALSE
    /\ transactionStatus' = ""
    /\ UNCHANGED <<showConfirmModal, activeTab>>

\* Fails without the finally block
FailsStaysSubmitting(s, rec, cause, err) ==
    /\ subs' = [subs EXCEPT ![s] = [rec EXCEPT !.pc = "done", !.outcome = "Failed",
                                               !.failedAt = rec.pc, !.cause = cause,
                                               !.thrown = err,
                                               !.reported = ReportedMessage(err)]]
    /\ errorMessage' = ReportedMessage(err)
    /\ showConfirmModal' = FALSE
    /\ showErrorModal' = TRUE
    /\ UNCHANGED <<isSubmitting, transactionStatus, activeTab>>

FailsSilently(s, rec, cause, err) ==
    /\ subs' = [subs EXCEPT ![s] = [rec EXCEPT !.pc = "done", !.outcome = "Failed",
                                               !.failedAt = rec.pc, !.cause = cause,
                                               !.thrown = err,
                                               !.reported = ReportedMessage(err)]]
    /\ errorMessage' = ReportedMessage(err)
    /\ showConfirmModal' = FALSE
    /\ isSubmitting' = FALSE
    /\ transactionStatus' = ""
    /\ UNCHANGED <<showErrorModal, activeTab>>

\* `err` reaches the catch block of handleConfirmedSubmit, then finally runs;
\* `cause` is the error that was thrown first
Fails(s, rec, cause, err) ==
    /\ subs' = [subs EXCEPT ![s] = [rec EXCEPT !.pc = "done", !.outcome = "Failed",
                                               !.failedAt = rec.pc, !.cause = cause,
                                               !.thrown = err,
                                               !.reported = ReportedMessage(err)]]
    /\ errorMessage' = ReportedMessage(err)
    /\ showConfirmModal' = FALSE
    /\ showErrorModal' = TRUE
    /\ isSubmitting' = FALSE
    /\ transactionStatus' = ""
    /\ UNCHANGED activeTab

\* setShowConfirmModal(false); setActiveTab("success"); then finally runs
Succeeds(s, rec) ==
    IF setActiveTabProp = "function"
    THEN /\ subs' = [subs EXCEPT ![s] = [rec EXCEPT !.pc = "done", !.outcome = "Succeeded"]]
         /\ showConfirmModal' = FALSE
         /\ activeTab' = "success"
         /\ isSubmitting' = FALSE
         /\ transactionStatus' = ""
         /\ UNCHANGED <<showErrorModal, errorMessage>>
    ELSE Fails(s, rec, Error(MsgNotAFunction), Error(MsgNotAFunction))

\* `if (txHash)` is not taken: the try block ends, then finally runs
Skips(s, rec) ==
    /\ subs' = [subs EXCEPT ![s] = [rec EXCEPT !.pc = "done", !.outcome = "Silent"]]
    /\ isSubmitting' = FALSE
    /\ transactionStatus' = ""
    /\ UNCHANGED <<showConfirmModal, showErrorModal, errorMessage, activeTab>>

\* from `if (!walletClient || !address)` to `await checkUsdcBalance()`:
\* checkUsdcBalance has either issued getChainId or, when the render had no
\* address or no public client, thrown before its try, so that the handler
\* waits on a rejected promise
AfterConnect(s, rec0, submitting) ==
    LET rec == [rec0 EXCEPT !.session = wallet.hasClient] IN
    IF ~rec.hasClient
    THEN Fails(s, rec, Error(MsgWalletFailed), Error(MsgWalletFailed))
    ELSE LET value == NumberToString(rec.selectedAmount.usdc_value) IN
         IF ~ValidDecimalNumber(value)
         THEN Fails(s, rec, Error(MsgInvalidDecimal(value)), Error(MsgInvalidDecimal(value)))
         ELSE LET priced == [rec EXCEPT !.amountInWei = ParseUnits(value, USDC_DECIMALS)] IN
              Proceed(s, [priced EXCEPT !.pc = IF rec.publicClient
                                               THEN "balanceChainId"
                                               ELSE "checkUsdcBalance"],
                      "Checking your USDC balance...", submitting)

InFlight(s) == subs[s].pc \notin {"idle", "done"}

\* the records a new execution can take
FreeSlots == {s \in 1..MaxInFlight : ~InFlight(s)}

\* the Confirm Purchase button: handleConfirmedSubmit up to its first await
ClickConfirm ==
    /\ ConfirmModalShown(view)
    /\ ~view.isSubmitting
    /\ view.selectedAmount # Null
    /\ FreeSlots # {}
    /\ LET s == CHOOSE f \in FreeSlots : \A g \in FreeSlots : f <= g
           rec == [NoSub EXCEPT !.selectedAmount = view.selectedAmount,
                                !.recipientPhone = view.recipientPhone,
                                !.isConnected = view.isConnected,
                                !.hasClient = view.hasClient,
                                !.publicClient = view.publicClient]
       IN IF ~rec.isConnected
          THEN Proceed(s, Did([rec EXCEPT !.pc = "connect"], "connect"),
                       transactionStatus, TRUE)
          ELSE AfterConnect(s, rec, TRUE)
    /\ flowFrame

\* await connect(...): connect returns nothing and the handler goes on
ConnectReturns(s) ==
    /\ subs[s].pc = "connect"
    /\ AfterConnect(s, subs[s], isSubmitting)
    /\ flowFrame

\* await checkUsdcBalance() on the promise that checkUsdcBalance rejected at
\* its test of address and publicClient, before any call of the ledger
CheckUsdcBalanceRejects(s) ==
    /\ subs[s].pc = "checkUsdcBalance"
    /\ Fails(s, subs[s], Error(MsgWalletNotConnected), Error(MsgWalletNotConnected))
    /\ flowFrame

\* checkUsdcBalance: await publicClient.getChainId()
BalanceChainIdReturns(s) ==
    /\ subs[s].pc = "balanceChainId"
    /\ \/ Proceed(s, Did([subs[s] EXCEPT !.pc = "balanceOf",
                                          !.balanceToken = UsdcAddress(chainId)],
                         "getChainId"),
                  transactionStatus, isSubmitting)
       \/ \E e \in ReadErrors : Fails(s, subs[s], e, WrapBalanceError(e))
    /\ flowFrame

\* checkUsdcBalance: await readContract(balanceOf); the balance test; the start
\* of transferUsdcDirectly up to its getChainId
BalanceOfReturns(s) ==
    /\ subs[s].pc = "balanceOf"
    /\ \/ \E b \in Balances :
            LET rec == Did([subs[s] EXCEPT !.balance = b], "balanceOf") IN
            IF InsufficientBalance(b, rec.amountInWei)
            THEN \E m \in {Error(MsgInsufficient(b, rec.selectedAmount.usdc_value))} :
                     Fails(s, rec, m, m)
            ELSE IF ~rec.hasClient \/ ~rec.publicClient
            THEN Fails(s, rec, Error(MsgWalletNotConnected),
                       WrapTransferError(Error(MsgWalletNotConnected)))
            ELSE Proceed(s, [rec EXCEPT !.pc = "transferChainId",
                                        !.amount = rec.amountInWei],
                         "Transferring USDC...", isSubmitting)
       \/ \E e \in ReadErrors : Fails(s, subs[s], e, WrapBalanceError(e))
    /\ flowFrame

\* transferUsdcDirectly: await publicClient.getChainId()
TransferChainIdReturns(s) ==
    /\ subs[s].pc = "transferChainId"
    /\ \/ Proceed(s, Did([subs[s] EXCEPT !.pc = "allowance",
                                          !.usdcAddress = UsdcAddress(chainId)],
                         "getChainId"),
                  transactionStatus, isSubmitting)
       \/ \E e \in ReadErrors : Fails(s, subs[s], e, WrapTransferError(e))
    /\ flowFrame

\* transferUsdcDirectly: await readContract(allowance) and the choice to approve
AllowanceReturns(s) ==
    /\ subs[s].pc = "allowance"
    /\ \/ \E a \in Allowances :
            LET rec == Did([subs[s] EXCEPT !.allowance = a], "allowance") IN
            IF NeedsApproval(a, rec.amount)
            THEN Proceed(s, [rec EXCEPT !.pc = "simulateApprove",
                                        !.approveArgs = ApproveArgs(rec)],
                         "Approving USDC spend...", isSubmitting)
            ELSE Proceed(s, [rec EXCEPT !.pc = "simulateTransfer",
                                        !.transferArgs = TransferArgs(rec)],
                         transactionStatus, isSubmitting)
       \/ \E e \in ReadErrors : Fails(s, subs[s], e, WrapTransferError(e))
    /\ flowFrame

\* await simulateContract(approve)
SimulateApproveReturns(s) ==
    /\ subs[s].pc = "simulateApprove"
    /\ \/ Proceed(s, Did([subs[s] EXCEPT !.pc = "writeApprove"], "simulateApprove"),
                  transactionStatus, isSubmitting)
       \/ \E e \in SimulateErrors : Fails(s, subs[s], e, WrapTransferError(e))
    /\ flowFrame

\* await walletClient.writeContract(approveRequest)
WriteApproveReturns(s) ==
    /\ subs[s].pc = "writeApprove"
    /\ \/ Proceed(s, Did([subs[s] EXCEPT !.pc = "approveReceipt",
                                          !.approveTxHash = HashOf(s, "a")],
                         "approveTx"),
                  "Waiting for approval confirmation...", isSubmitting)
       \/ \E e \in WriteErrors : Fails(s, subs[s], e, WrapTransferError(e))
    /\ flowFrame

\* await waitForTransactionReceipt(approveTxHash, 60 s) and the status test
ApproveReceiptReturns(s) ==
    /\ subs[s].pc = "approveReceipt"
    /\ \/ \E st \in Receipts :
            LET rec == Did([subs[s] EXCEPT !.approveReceipt = st], "approveReceipt") IN
            IF Reverted(st)
            THEN Fails(s, rec, Error(MsgApprovalReverted), WrapTransferError(Error(MsgApprovalReverted)))
            ELSE Proceed(s, [rec EXCEPT !.pc = "simulateTransfer",
                                        !.transferArgs = TransferArgs(rec)],
                         transactionStatus, isSubmitting)
       \/ Fails(s, [subs[s] EXCEPT !.approveReceipt = "timeout"], Error(MsgReceiptTimeout),
                WrapTransferError(Error(MsgReceiptTimeout)))
    /\ flowFrame

\* await simulateContract(transfer)
SimulateTransferReturns(s) ==
    /\ subs[s].pc = "simulateTransfer"
    /\ \/ Proceed(s, Did([subs[s] EXCEPT !.pc = "writeTransfer"], "simulateTransfer"),
                  transactionStatus, isSubmitting)
       \/ \E e \in SimulateErrors : Fails(s, subs[s], e, WrapTransferError(e))
    /\ flowFrame

\* await walletClient.writeContract(transferRequest)
\* ReturnedHash giving back the approval's hash
ReturnedApproveHash(rec) == rec.approveTxHash

\* return transferTxHash
ReturnedHash(rec) == rec.transferTxHash

WriteTransferReturns(s) ==
    /\ subs[s].pc = "writeTransfer"
    /\ \/ Proceed(s, Did([subs[s] EXCEPT !.pc = "transferReceipt",
                                          !.transferTxHash = HashOf(s, "t")],
                         "transferTx"),
                  "Waiting for transfer confirmation...", isSubmitting)
       \/ \E e \in WriteErrors : Fails(s, subs[s], e, WrapTransferError(e))
    /\ flowFrame

\* await waitForTransactionReceipt(transferTxHash, 60 s), the status test, the
\* return of the hash to handleConfirmedSubmit and the fetch of /send-topup
TransferReceiptReturns(s) ==
    /\ subs[s].pc = "transferReceipt"
    /\ \/ \E st \in Receipts :
            LET rec == Did([subs[s] EXCEPT !.transferReceipt = st], "transferReceipt") IN
            IF Reverted(st)
            THEN Fails(s, rec, Error(MsgTransferReverted), WrapTransferError(Error(MsgTransferReverted)))
            ELSE LET got == [rec EXCEPT !.txHash = ReturnedHash(rec)] IN
                 IF PaymentConfirmed(got.txHash)
                 THEN Proceed(s, Did([got EXCEPT !.pc = "topup",
                                                 !.posts = Append(@, TopupBody(got))],
                                     "post"),
                              "Sending airtime topup request...", isSubmitting)
                 ELSE Skips(s, got)
       \/ Fails(s, [subs[s] EXCEPT !.transferReceipt = "timeout"], Error(MsgReceiptTimeout),
                WrapTransferError(Error(MsgReceiptTimeout)))
    /\ flowFrame

\* await fetch(/send-topup)
TopupReturns(s) ==
    /\ subs[s].pc = "topup"
    /\ \/ \E ok \in BOOLEAN :
            Proceed(s, [subs[s] EXCEPT !.pc = IF ResponseFailed(ok) THEN "errorBody"
                                                ELSE "okBody",
                                       !.response = IF ok THEN "ok" ELSE "notOk"],
                    transactionStatus, isSubmitting)
       \/ \E e \in FetchErrors :
            Fails(s, [subs[s] EXCEPT !.response = "threw"], e, e)
    /\ flowFrame

\* !response.ok: await response.json(); throw new Error(errorData.error || default)
ErrorBodyReturns(s) ==
    /\ subs[s].pc = "errorBody"
    /\ \/ \E body \in ErrorBodies :
            LET e == Error(IF body.hasError /\ body.error # "" THEN body.error
                           ELSE MsgResponseNotOk)
            IN Fails(s, [subs[s] EXCEPT !.errorData = body], e, e)
       \/ \E e \in JsonErrors : Fails(s, subs[s], e, e)
    /\ flowFrame

\* response.ok: await response.json(); close the dialog; setActiveTab("success")
OkBodyReturns(s) ==
    /\ subs[s].pc = "okBody"
    /\ \/ Succeeds(s, subs[s])
       \/ \E e \in JsonErrors : Fails(s, subs[s], e, e)
    /\ flowFrame

Step(s) ==
    \/ ConnectReturns(s)
    \/ CheckUsdcBalanceRejects(s)
    \/ BalanceChainIdReturns(s)
    \/ BalanceOfReturns(s)
    \/ TransferChainIdReturns(s)
    \/ AllowanceReturns(s)
    \/ SimulateApproveReturns(s)
    \/ WriteApproveReturns(s)
    \/ ApproveReceiptReturns(s)
    \/ SimulateTransferReturns(s)
    \/ WriteTransferReturns(s)
    \/ TransferReceiptReturns(s)
    \/ TopupReturns(s)
    \/ ErrorBodyReturns(s)
    \/ OkBodyReturns(s)

\* the main thread is not blocked inside window.alert()
Responsive == alert = NoAlert

\* the page shows the current state
Settled == view = Snapshot

\* no dialog covers the form
Unobstructed == ~ConfirmModalShown(view) /\ ~view.showErrorModal

\* every execution is at a point where the wallet session can still matter to
\* it: past `await connect`, handleConfirmedSubmit reads only its closure
WalletQuiet == \A s \in 1..MaxInFlight : subs[s].pc \in {"idle", "done", "connect"}

\* no execution of handleConfirmedSubmit has started yet
Untouched == \A s \in 1..MaxInFlight : subs[s].pc = "idle"

\* A user who acts on the page as rendered from the current state, who reaches
\* the form only while no dialog covers it, and who fills the form before the
\* first submission (later submissions retry the same intent). The chain
\* changes freely, the wallet session while no execution is past its wallet check.
\* While an alert box is open the main thread is inside alert(): no handler,
\* continuation or render runs until the user closes the box.
Next ==
    \/ Responsive /\ Render
    \/ Responsive /\ fetchCountries
    \/ Responsive /\ Settled /\ Unobstructed /\ Untouched /\ SelectCountry
    \/ Responsive /\ Settled /\ Unobstructed /\ Untouched /\ SelectOperator
    \/ Responsive /\ Settled /\ Unobstructed /\ Untouched /\ SelectAmount
    \/ Responsive /\ Settled /\ Unobstructed /\ Untouched /\ InputPhone
    \/ Responsive /\ Settled /\ Unobstructed /\ handleSubmitForm
    \/ Responsive /\ Settled /\ ClickEdit
    \/ Responsive /\ Settled /\ ClickDismiss
    \/ Responsive /\ Settled /\ ClickConfirm
    \/ WalletQuiet /\ WalletChanges
    \/ ChainChanges
    \/ Responsive /\ \E s \in 1..MaxInFlight : Step(s)
    \/ AcknowledgeAlert

Spec == Init /\ [][Next]_vars

----------------------------------------------------------------------------
(* What an execution did *)

Subs == 1..MaxInFlight

Count(trace, ev) == Cardinality({i \in DOMAIN trace : trace[i] = ev})

\* position of the first `ev` in the trace, 0 when there is none
First(trace, ev) ==
    IF Count(trace, ev) = 0 THEN 0
    ELSE CHOOSE i \in DOMAIN trace : trace[i] = ev /\ \A j \in 1..(i - 1) : trace[j] # ev

Done(s) == subs[s].pc = "done"
Approvals(s) == Count(subs[s].trace, "approveTx")
Transfers(s) == Count(subs[s].trace, "transferTx")
Posts(s) == Len(subs[s].posts)
BalanceRead(s) == subs[s].balance # -1
AllowanceRead(s) == subs[s].allowance # -1

\* the steps of an execution that come before the transfer is sent
BeforeTransfer ==
    {"idle", "connect", "checkUsdcBalance", "balanceChainId", "balanceOf", "transferChainId", "allowance",
     "simulateApprove", "writeApprove", "approveReceipt", "simulateTransfer",
     "writeTransfer"}

----------------------------------------------------------------------------
(* Claims *)

\* C1: the POST to /send-topup is issued if and only if the transfer's receipt
\* was obtained with a non-reverted status, and never before that receipt.
C1_TopupIffTransferConfirmed ==
    \A s \in Subs :
        /\ Posts(s) >= 1 <=> subs[s].transferReceipt = "success"
        /\ Posts(s) >= 1 =>
             /\ Count(subs[s].trace, "post") = Posts(s)
             /\ First(subs[s].trace, "transferReceipt") >= 1
             /\ First(subs[s].trace, "transferReceipt") < First(subs[s].trace, "post")
             /\ First(subs[s].trace, "transferTx") < First(subs[s].trace, "transferReceipt")

C1_Witness ==
    \E s \in Subs : Posts(s) = 1 /\ subs[s].transferReceipt = "success"

\* the conditions C2 puts on a submission
C2_HappyPath(s) ==
    /\ Done(s)
    /\ subs[s].selectedAmount # Null
    /\ ElevenDigits(subs[s].recipientPhone)
    /\ subs[s].isConnected /\ subs[s].hasClient
    /\ BalanceRead(s) /\ subs[s].balance >= subs[s].amountInWei
    /\ AllowanceRead(s) /\ subs[s].allowance >= subs[s].amountInWei
    /\ subs[s].transferReceipt = "success"
    /\ subs[s].response = "ok"
    /\ subs[s].cause \notin JsonErrors

\* C2: a valid intent confirmed with a connected wallet, sufficient balance and
\* allowance, a confirmed transfer and a 2xx answer ends as Succeeded, with one
\* fulfilment call carrying the transfer's hash, the caller notified through
\* setActiveTab("success") and no error reported, in the component as the page
\* mounts it.
C2_HappyPathSucceeds ==
    \A s \in Subs :
        C2_HappyPath(s) =>
            /\ subs[s].outcome = "Succeeded"
            /\ Posts(s) = 1
            /\ subs[s].posts[1].tx_hash = subs[s].transferTxHash
            /\ activeTab = "success"
            /\ subs[s].reported = ""

\* C3: a balance read below the required amount fails the submission with the
\* insufficient-funds message, with no approval, no transfer and no fulfilment call.
C3_InsufficientFundsStops ==
    \A s \in Subs :
        (BalanceRead(s) /\ subs[s].balance < subs[s].amountInWei) =>
            /\ Done(s)
            /\ subs[s].outcome = "Failed"
            /\ subs[s].reported = MsgInsufficient(subs[s].balance,
                                                  subs[s].selectedAmount.usdc_value)
            /\ Approvals(s) = 0
            /\ Transfers(s) = 0
            /\ Posts(s) = 0

C3_Witness ==
    \E s \in Subs : BalanceRead(s) /\ subs[s].balance < subs[s].amountInWei /\ Done(s)

\* C4: a transfer receipt with status reverted leads to no fulfilment call and
\* the submission ends as Failed.
C4_RevertedTransferFails ==
    \A s \in Subs :
        subs[s].transferReceipt = "reverted" =>
            /\ Posts(s) = 0
            /\ Done(s)
            /\ subs[s].outcome = "Failed"

C4_Witness ==
    \E s \in Subs : subs[s].transferReceipt = "reverted" /\ Transfers(s) = 1

\* C5, as claimed: an allowance read below the required amount is followed by
\* exactly one approval transaction in the submission.
C5_ExactlyOneApproval ==
    \A s \in Subs :
        (Done(s) /\ AllowanceRead(s) /\ subs[s].allowance < subs[s].amountInWei) =>
            Approvals(s) = 1

\* C5, amended: after an allowance read below the required amount at most one
\* approval transaction is submitted, none only when simulating or sending the
\* approval failed; the transfer is submitted only after exactly one approval,
\* whose receipt was obtained and found non-reverted before the transfer.
C5_ApprovalBeforeTransfer ==
    \A s \in Subs :
        (AllowanceRead(s) /\ subs[s].allowance < subs[s].amountInWei) =>
            /\ Approvals(s) <= 1
            /\ (Done(s) /\ Approvals(s) = 0) =>
                 /\ subs[s].failedAt \in {"simulateApprove", "writeApprove"}
                 /\ Transfers(s) = 0
            /\ (Transfers(s) >= 1 \/ Count(subs[s].trace, "simulateTransfer") >= 1) =>
                 /\ Approvals(s) = 1
                 /\ subs[s].approveReceipt = "success"
                 /\ First(subs[s].trace, "approveTx") < First(subs[s].trace, "approveReceipt")
                 /\ First(subs[s].trace, "approveReceipt")
                      < First(subs[s].trace, "simulateTransfer")
            /\ Transfers(s) >= 1 =>
                 First(subs[s].trace, "approveReceipt") < First(subs[s].trace, "transferTx")

C5_Witness ==
    \E s \in Subs :
        /\ AllowanceRead(s) /\ subs[s].allowance < subs[s].amountInWei
        /\ Approvals(s) = 1 /\ Transfers(s) = 1

\* C6: an allowance read at or above the required amount leads to no approval
\* transaction; the transfer is the only on-chain write of the submission.
C6_NoApprovalWhenAllowed ==
    \A s \in Subs :
        (AllowanceRead(s) /\ subs[s].allowance >= subs[s].amountInWei) =>
            /\ Approvals(s) = 0
            /\ Count(subs[s].trace, "simulateApprove") = 0
            /\ subs[s].approveTxHash = NoHash
            /\ Transfers(s) <= 1

C6_Witness ==
    \E s \in Subs :
        /\ AllowanceRead(s) /\ subs[s].allowance >= subs[s].amountInWei
        /\ Transfers(s) = 1

\* C7: when the wait for the transfer's receipt times out, the attempt fails
\* with the confirmation timeout as its reported error, and no fulfilment call
\* is made.
C7_TimeoutReported ==
    \A s \in Subs :
        subs[s].transferReceipt = "timeout" =>
            /\ Done(s)
            /\ subs[s].outcome = "Failed"
            /\ subs[s].reported = MsgReceiptTimeout
            /\ Posts(s) = 0

\* C8: when the fulfilment service answers non-2xx after a confirmed transfer,
\* the step that ends the submission shows the error notification with the
\* service's (or the default) message, does not signal success, leaves the one
\* transfer as the last on-chain write and issues no further fulfilment call.
C8_FulfilmentFailureReported ==
    [][\A s \in Subs :
         (subs[s].pc = "errorBody" /\ subs'[s].pc = "done") =>
            /\ subs'[s].outcome = "Failed"
            /\ subs'[s].cause \in {Error(MsgServiceError), Error(MsgOperatorNetwork),
                                   Error(MsgResponseNotOk)}
                                  \cup JsonErrors
            /\ showErrorModal'
            /\ errorMessage' = subs'[s].reported
            /\ errorMessage' # ""
            /\ ~showConfirmModal'
            /\ activeTab' = activeTab
            /\ subs'[s].transferReceipt = "success"
            /\ subs'[s].trace = subs[s].trace
            /\ Count(subs'[s].trace, "transferTx") = 1
            /\ subs'[s].trace[Len(subs'[s].trace)] = "post"
            /\ Len(subs'[s].posts) = 1]_vars

C8_Witness ==
    \E s \in Subs : Done(s) /\ subs[s].response = "notOk" /\ showErrorModal

\* C9: a submission causes at most one transfer and at most one fulfilment
\* call; no transfer when a step before the transfer failed; one fulfilment
\* call exactly when the transfer is confirmed.
C9_AtMostOneTransferAndTopup ==
    \A s \in Subs :
        /\ Transfers(s) <= 1
        /\ Posts(s) <= 1
        /\ (Done(s) /\ subs[s].failedAt \in BeforeTransfer) => Transfers(s) = 0
        /\ Done(s) => (Posts(s) = 1 <=> subs[s].transferReceipt = "success")

C9_Witness ==
    \E s \in Subs : Done(s) /\ Transfers(s) = 1 /\ Posts(s) = 1

----------------------------------------------------------------------------
(* Activations that reach the page before it is rendered again *)

\* the ledger's answers to execution s: a balance of 1.00 and no allowance
PlainAnswers(s) ==
    /\ subs[s].balance \in {-1, 1000000}
    /\ subs[s].allowance \in {-1, 0}

\* As Next, but the Confirm Purchase button can be activated on the page as it
\* was last rendered, before the state it set has been rendered; wallet and
\* chain stay as they were at mount, the ledger reports a balance of 1.00 and
\* no allowance, the collaborators answer the executions in flight one after
\* the other, and the user does not open the dialog again after a submission.
NextRace ==
    \/ Responsive /\ Render
    \/ Responsive /\ fetchCountries
    \/ Responsive /\ Settled /\ Unobstructed /\ Untouched /\ SelectCountry
    \/ Responsive /\ Settled /\ Unobstructed /\ Untouched /\ SelectOperator
    \/ Responsive /\ Settled /\ Unobstructed /\ Untouched /\ SelectAmount
    \/ Responsive /\ Settled /\ Unobstructed /\ Untouched /\ InputPhone
    \/ Responsive /\ Settled /\ Unobstructed /\ Untouched /\ handleSubmitForm
    \/ Responsive /\ Settled /\ ClickEdit
    \/ Responsive /\ Settled /\ ClickDismiss
    \/ Responsive /\ ClickConfirm
    \/ Responsive /\ \E s \in 1..MaxInFlight : (\A r \in 1..(s - 1) : ~InFlight(r)) /\ Step(s) /\ PlainAnswers(s)'
    \/ AcknowledgeAlert

SpecRace == Init /\ [][NextRace]_vars

\* C10: at most one execution of handleConfirmedSubmit is in flight at any
\* time, also when Confirm is activated again before the re-render that
\* disables it.
C10_SingleFlight == Cardinality({s \in Subs : InFlight(s)}) <= 1

----------------------------------------------------------------------------
(* Validation and confirmation *)

\* the entries of the catalog
CatalogAmounts == {Mtn500, Airtel100, Airtel5}

\* a complete purchase intent: country, operator, a catalog amount and a phone
\* number of exactly 11 decimal digits
CompleteIntent(v) ==
    /\ v.selectedCountry # ""
    /\ v.selectedOperator # ""
    /\ v.selectedAmount \in CatalogAmounts
    /\ Len(v.recipientPhone) = 11
    /\ \A i \in 1..Len(v.recipientPhone) : v.recipientPhone[i] \in Digits

\* C11: handleSubmitForm opens the confirmation dialog exactly when the intent
\* is complete; the dialog never opens otherwise, and a failed check opens an
\* alert box, leaves the dialog closed and changes nothing else.
C11_DialogIffValid ==
    [][/\ handleSubmitForm =>
            /\ showConfirmModal' <=> CompleteIntent(view)
            /\ (alert' # NoAlert) <=> ~CompleteIntent(view)
       /\ (~showConfirmModal /\ showConfirmModal') => CompleteIntent(view)
       /\ (alert = NoAlert /\ alert' # NoAlert) =>
            /\ ~CompleteIntent(view)
            /\ ~showConfirmModal'
            /\ UNCHANGED <<uiVars, view, fetchPc, pay, envVars, subs, activeTab>>]_vars

\* the 10-digit phone number was rejected with a message
C11_Witness ==
    /\ alert = "Please enter a valid 11-digit phone number."
    /\ view.recipientPhone = Phone10
    /\ view.selectedAmount # Null
    /\ ~showConfirmModal

\* an execution of handleConfirmedSubmit starts in slot s
Starts(s) == subs[s].pc \in {"idle", "done"} /\ subs'[s] # subs[s]

\* C12: an execution of handleConfirmedSubmit starts only from the rendered
\* confirmation dialog, the dialog opens only by a validation that passed and
\* starts nothing, and closing the dialog with Edit (the dialog closes and no
\* error is shown) changes nothing but the dialog flag: no wallet, ledger or
\* HTTP operation is performed.
C12_StartsOnlyFromDialog ==
    [][/\ \A s \in Subs : Starts(s) =>
            /\ view.showConfirmModal /\ view.selectedAmount # Null
            /\ showConfirmModal
            /\ subs'[s].selectedAmount = view.selectedAmount
       /\ (~showConfirmModal /\ showConfirmModal') =>
            CompleteIntent(view) /\ UNCHANGED <<subs, envVars, activeTab>>
       /\ (showConfirmModal /\ ~showConfirmModal' /\ ~showErrorModal') =>
            UNCHANGED <<formVars, isSubmitting, showErrorModal, errorMessage, countries,
                        isLoading, transactionStatus, view, fetchPc, alert, pay, envVars,
                        subs, activeTab>>]_vars

\* an execution has just started from the dialog that the page shows
C12_Witness ==
    \E s \in Subs :
        /\ subs[s].pc = "balanceChainId"
        /\ view.showConfirmModal /\ view.selectedAmount = subs[s].selectedAmount
        /\ ~view.isSubmitting /\ isSubmitting

----------------------------------------------------------------------------
(* The wallet session and the token address *)

\* execution s was started without a wallet session and is past its wallet check
ConnectedOnDemand(s) ==
    /\ subs[s].pc \notin {"idle", "connect"}
    /\ ~subs[s].isConnected

\* execution s ended at the wallet check
WalletUnavailable(s) == Done(s) /\ subs[s].cause = Error(MsgWalletFailed)

\* C13: an execution started without a wallet session requests one; it ends
\* with the wallet failure exactly when no session was established by the time
\* of its wallet check, and continues to the balance check otherwise; an
\* execution that ends with the wallet failure has read no balance, sent no
\* transaction and made no fulfilment call.
C13_WalletUnavailableIffNoSession ==
    \A s \in Subs :
        /\ ConnectedOnDemand(s) =>
              /\ First(subs[s].trace, "connect") = 1
              /\ WalletUnavailable(s) <=> ~subs[s].session
        /\ WalletUnavailable(s) =>
              /\ \A i \in 1..Len(subs[s].trace) : subs[s].trace[i] = "connect"
              /\ subs[s].posts = <<>>

\* C14: within one execution the balance read and the allowance read,
\* approval and transfer use one and the same token address, and while the
\* execution is in flight that address is the one of the connected chain,
\* also when the chain changes during the execution.
C14_OneTokenAddress ==
    \A s \in Subs :
        /\ (subs[s].balanceToken # "" /\ subs[s].usdcAddress # "") =>
              subs[s].balanceToken = subs[s].usdcAddress
        /\ (InFlight(s) /\ subs[s].usdcAddress # "") =>
              subs[s].usdcAddress = UsdcAddress(chainId)

----------------------------------------------------------------------------
(* Order of the steps *)

\* the transactions and the fulfilment request, as an observer of the ledger
\* and of the service sees them
Observable(ev) == ev \in {"approveTx", "transferTx", "post"}

\* C15: the tx_hash of every fulfilment request is the hash of the transfer of
\* the same execution, not the approval's and not empty; with price 0.33,
\* balance 1.00 and allowance 0 an execution that posts has sent the approval,
\* then the transfer, then the request.
C15_ProofIsTransferHash ==
    \A s \in Subs :
        /\ \A i \in 1..Len(subs[s].posts) :
              /\ subs[s].posts[i].tx_hash = subs[s].transferTxHash
              /\ subs[s].posts[i].tx_hash = HashOf(s, "t")
              /\ subs[s].posts[i].tx_hash # subs[s].approveTxHash
              /\ subs[s].posts[i].tx_hash # NoHash
        /\ (/\ subs[s].selectedAmount = Mtn500
            /\ subs[s].balance = 1000000
            /\ subs[s].allowance = 0
            /\ Posts(s) > 0) =>
              SelectSeq(subs[s].trace, Observable) = <<"approveTx", "transferTx", "post">>

\* the scenario: price 0.33, balance 1.00, allowance 0, and the request sent
C15_Witness ==
    \E s \in Subs :
        /\ subs[s].selectedAmount = Mtn500
        /\ subs[s].balance = 1000000
        /\ subs[s].allowance = 0
        /\ subs[s].approveTxHash # NoHash
        /\ Posts(s) = 1

\* the steps of handleConfirmedSubmit in program order
StepNames ==
    <<"connect", "checkUsdcBalance", "balanceChainId", "balanceOf", "transferChainId", "allowance",
      "simulateApprove", "writeApprove", "approveReceipt", "simulateTransfer",
      "writeTransfer", "transferReceipt", "topup", "errorBody", "okBody">>

\* position of a step in program order; 0 for the synchronous start
Rank(pc) == IF pc = "idle" THEN 0 ELSE CHOOSE i \in DOMAIN StepNames : StepNames[i] = pc

\* the step that issued the i-th operation of a trace
EventStep(trace, i) ==
    LET ev == trace[i] IN
    IF ev = "getChainId"
    THEN IF \E j \in 1..(i - 1) : trace[j] = "getChainId" THEN "transferChainId"
         ELSE "balanceChainId"
    ELSE IF ev = "approveTx" THEN "writeApprove"
    ELSE IF ev = "transferTx" THEN "writeTransfer"
    ELSE IF ev = "post" THEN "topup"
    ELSE ev

\* the operations of a complete execution, in order
StepOrder(withConnect, withApproval) ==
    (IF withConnect THEN <<"connect">> ELSE <<>>)
    \o <<"getChainId", "balanceOf", "getChainId", "allowance">>
    \o (IF withApproval THEN <<"simulateApprove", "approveTx", "approveReceipt">> ELSE <<>>)
    \o <<"simulateTransfer", "transferTx", "transferReceipt", "post">>

IsPrefix(p, q) == Len(p) <= Len(q) /\ \A i \in 1..Len(p) : p[i] = q[i]

Has(s, ev) == Count(subs[s].trace, ev) > 0

\* C16: the operations of an execution follow the order wallet check, balance
\* read, allowance read, approval (submission, receipt) only if needed,
\* transfer submission, transfer receipt, fulfilment request; an operation is
\* issued only after the one before it succeeded, and after a failure no
\* operation of a later step is issued.
C16_StrictOrder ==
    \A s \in Subs :
        /\ \E c, a \in BOOLEAN : IsPrefix(subs[s].trace, StepOrder(c, a))
        /\ Has(s, "getChainId") => subs[s].hasClient
        /\ Count(subs[s].trace, "getChainId") = 2 =>
              /\ Has(s, "balanceOf")
              /\ subs[s].balance >= subs[s].amountInWei
        /\ Has(s, "simulateApprove") =>
              Has(s, "allowance") /\ subs[s].allowance < subs[s].amountInWei
        /\ Has(s, "simulateTransfer") =>
              /\ Has(s, "allowance")
              /\ \/ subs[s].allowance >= subs[s].amountInWei /\ ~Has(s, "approveTx")
                 \/ subs[s].approveReceipt = "success" /\ Has(s, "approveTx")
        /\ Has(s, "post") => subs[s].transferReceipt = "success"
        /\ subs[s].failedAt # "" =>
              /\ Done(s)
              /\ \A i \in 1..Len(subs[s].trace) :
                    Rank(EventStep(subs[s].trace, i)) <= Rank(subs[s].failedAt)

\* an execution ran every step, the approval included, in order
C16_Witness ==
    \E s \in Subs : subs[s].trace = StepOrder(FALSE, TRUE) /\ Done(s)

\* the operations an execution can issue
Operations ==
    {"connect", "getChainId", "balanceOf", "allowance", "simulateApprove", "approveTx",
     "approveReceipt", "simulateTransfer", "transferTx", "transferReceipt", "post"}

\* how often an execution issues an operation: the chain id is read once by
\* checkUsdcBalance and once by transferUsdcDirectly
Issues(ev) == IF ev = "getChainId" THEN 2 ELSE 1

\* C17: nothing is retried. After every step, an execution in which an
\* operation failed has ended, no execution has issued an operation more
\* often than the program order contains it, and the record of an execution
\* that has ended stays as it is until the user confirms a new submission
\* from the dialog.
C17_NoRetry ==
    [][\A s \in Subs :
         /\ subs'[s].failedAt # "" => subs'[s].pc = "done" /\ subs'[s].outcome = "Failed"
         /\ \A ev \in Operations : Count(subs'[s].trace, ev) <= Issues(ev)
         /\ Len(subs'[s].posts) <= 1
         /\ (subs[s].pc # "done" /\ subs'[s].pc = "done") =>
               /\ Len(subs'[s].trace) <= Len(subs[s].trace) + 1
               /\ subs'[s].posts = subs[s].posts
         /\ subs[s].pc = "done" =>
               \/ subs'[s] = subs[s]
               \/ /\ view.showConfirmModal /\ ~view.isSubmitting
                  /\ subs'[s].trace \in {<<>>, <<"connect">>}
                  /\ subs'[s].posts = <<>>
                  /\ subs'[s].approveTxHash = NoHash
                  /\ subs'[s].transferTxHash = NoHash]_vars

\* the transfer submission failed and no transfer was sent afterwards
C17_Witness ==
    \E s \in Subs :
        /\ Done(s) /\ subs[s].outcome = "Failed"
        /\ subs[s].failedAt = "writeTransfer"
        /\ Transfers(s) = 0 /\ Posts(s) = 0
        /\ ~isSubmitting

----------------------------------------------------------------------------
(* Reporting and ending *)

\* execution s ends with a failure in this step
FailsNow(s) ==
    /\ subs'[s].pc = "done" /\ subs'[s].outcome = "Failed"
    /\ subs[s].pc # "done" \/ subs'[s] # subs[s]

\* C18: every step in which an execution fails leaves the confirmation dialog
\* closed and the error notification shown with the non-empty message of that
\* failure, and the notification is taken away only by the Dismiss button of
\* the rendered notification, which changes nothing else.
C18_FailureShown ==
    [][/\ \A s \in Subs : FailsNow(s) =>
            /\ ~showConfirmModal'
            /\ showErrorModal'
            /\ errorMessage' # ""
            /\ errorMessage' = subs'[s].reported
       /\ (showErrorModal /\ ~showErrorModal') =>
            /\ view.showErrorModal
            /\ UNCHANGED <<formVars, isSubmitting, showConfirmModal, errorMessage,
                           countries, isLoading, transactionStatus, view, fetchPc, alert, pay,
                           envVars, subs, activeTab>>]_vars

\* a receipt wait timed out and the page shows the notification, not the dialog
C18_Witness ==
    \E s \in Subs :
        /\ Done(s) /\ subs[s].cause = Error(MsgReceiptTimeout)
        /\ view.showErrorModal /\ view.errorMessage # ""
        /\ ~view.showConfirmModal
        /\ Settled

\* execution s ends in this step
EndsNow(s) == subs[s].pc # "done" /\ subs'[s].pc = "done"

\* C19: while isSubmitting is true, a step after which the confirmation dialog
\* is no longer on the page is the end of an execution as Succeeded or Failed,
\* no step starts another execution, an execution in flight either stays in
\* flight or ends as Succeeded or Failed, and a step that ends no execution
\* leaves the dialog's flag as it is: Edit, Buy and Confirm do nothing.
C19_NoCancelWhileSubmitting ==
    [][isSubmitting =>
         /\ (/\ showConfirmModal /\ selectedAmount # Null
             /\ ~(showConfirmModal' /\ selectedAmount' # Null)) =>
               \E s \in Subs :
                   EndsNow(s) /\ subs'[s].outcome \in {"Succeeded", "Failed"}
         /\ \A s \in Subs :
               /\ InFlight(s) =>
                     \/ InFlight(s)'
                     \/ subs'[s].pc = "done" /\ subs'[s].outcome \in {"Succeeded", "Failed"}
               /\ ~InFlight(s) => subs'[s] = subs[s]
         /\ (isSubmitting' /\ UNCHANGED subs) => UNCHANGED showConfirmModal]_vars

\* the part of C19 that is about the flow and the three buttons: while
\* isSubmitting is true no execution is started or dropped, and
\* showConfirmModal is cleared only by the step that ends an execution as
\* Succeeded or Failed
C19_FlowNotAborted ==
    [][isSubmitting =>
         /\ (showConfirmModal /\ ~showConfirmModal') =>
               \E s \in Subs :
                   EndsNow(s) /\ subs'[s].outcome \in {"Succeeded", "Failed"}
         /\ \A s \in Subs :
               /\ InFlight(s) =>
                     \/ InFlight(s)'
                     \/ subs'[s].pc = "done" /\ subs'[s].outcome \in {"Succeeded", "Failed"}
               /\ ~InFlight(s) => subs'[s] = subs[s]]_vars

\* the transfer is on the network and the page, rendered from the current
\* state, no longer contains the dialog: the selection was cleared behind it
C19_DialogGoneWhileWaiting ==
    \E s \in Subs :
        /\ subs[s].pc = "transferReceipt"
        /\ isSubmitting /\ view.isSubmitting
        /\ view.showConfirmModal /\ view.selectedAmount = Null
        /\ Settled

\* Every awaited wallet, ledger and HTTP operation eventually returns or
\* throws: an execution that waits is eventually resumed.
SpecLive ==
    /\ Init
    /\ [][Next]_vars
    /\ \A s \in Subs : WF_vars(Responsive /\ Step(s))

\* execution s has ended and the finally block has run
Ended(s) ==
    /\ Done(s)
    /\ subs[s].outcome \in {"Succeeded", "Failed"}
    /\ ~isSubmitting
    /\ transactionStatus = ""

\* C20: when every awaited operation eventually returns or throws, every
\* execution that has started eventually ends as Succeeded or Failed with
\* isSubmitting false and transactionStatus empty.
C20_EventuallyEnds == \A s \in Subs : InFlight(s) ~> Ended(s)

\* an execution that went as far as the fulfilment request has ended and the
\* page is free for a fresh submission
C20_Witness ==
    \E s \in Subs :
        /\ Ended(s) /\ Posts(s) = 1
        /\ ~showErrorModal /\ ~showConfirmModal /\ Settled /\ Responsive

----------------------------------------------------------------------------
(* Amounts *)

\* the decimal d times 10^n, truncated to an integer
Truncated(d, n) ==
    LET f == [i \in 1..n |-> IF i <= Len(d.frac) THEN d.frac[i] ELSE 0]
    IN  d.whole * Pow10(n) + DigitsToInt(f)

\* C21: the required amount of every execution is the price of its catalog
\* entry times 10^6, truncated to an integer, also for a price with more than
\* six fractional digits: it is never rounded up.
C21_AmountTruncated ==
    \A s \in Subs :
        subs[s].amountInWei # -1 =>
            subs[s].amountInWei = Truncated(subs[s].selectedAmount.usdc_value, USDC_DECIMALS)

----------------------------------------------------------------------------
(* What a failure reports *)

\* C22: an execution whose approval receipt is reverted reports the approval
\* failure and one whose transfer receipt is reverted reports the transfer
\* failure, so that the two can be told apart by what is reported.
C22_RevertKindReported ==
    \A s \in Subs :
        Done(s) =>
            /\ subs[s].approveReceipt = "reverted" =>
                  subs[s].reported = MsgApprovalReverted
            /\ subs[s].transferReceipt = "reverted" =>
                  subs[s].reported = MsgTransferReverted
            /\ MsgApprovalReverted # MsgTransferReverted

\* the catch of handleConfirmedSubmit has a branch of its own for the message
Classified(e) ==
    /\ e.isError
    /\ \/ Includes(e.message, "user rejected")
       \/ Includes(e.message, "insufficient funds")
       \/ Includes(e.message, "Insufficient")
       \/ Includes(e.message, "network")

\* C23: after a non-2xx answer the reported message is the value of the
\* body's `error` member, whatever that value is, and the default message
\* when the body has no such member; an error that reaches the catch of
\* handleConfirmedSubmit and is not classified is reported with its own message.
C23_ServiceMessageReported ==
    \A s \in Subs :
        /\ (Done(s) /\ subs[s].errorData # NoBody) =>
              subs[s].reported = IF subs[s].errorData.hasError
                                 THEN subs[s].errorData.error
                                 ELSE MsgResponseNotOk
        /\ (Done(s) /\ subs[s].outcome = "Failed" /\ ~Classified(subs[s].thrown)) =>
              subs[s].reported = subs[s].thrown.message

\* C24: the step in which an execution fails because the balance read is
\* below the required amount shows a message that names the balance and the
\* price, and the message shown is the one that was thrown, word for word.
C24_InsufficientMessageShown ==
    [][\A s \in Subs :
         (FailsNow(s) /\ subs'[s].failedAt = "balanceOf"
            /\ subs'[s].balance # -1 /\ subs'[s].balance < subs'[s].amountInWei) =>
            /\ Includes(errorMessage',
                        "You have " \o FormatUnits(subs'[s].balance, USDC_DECIMALS) \o " USDC")
            /\ Includes(errorMessage',
                        NumberToString(subs'[s].selectedAmount.usdc_value)
                        \o " USDC is required.")
            /\ Includes(errorMessage', "Insufficient USDC balance.")
            /\ errorMessage' = subs'[s].cause.message
            /\ errorMessage' = subs'[s].thrown.message
            /\ showErrorModal']_vars

\* a balance of 0.1 against a price of 0.33, as the page shows it
C24_Witness ==
    \E s \in Subs :
        /\ Done(s) /\ subs[s].balance = 100000 /\ subs[s].selectedAmount = Mtn500
        /\ view.showErrorModal
        /\ view.errorMessage =
              "Insufficient USDC balance. You have 0.1 USDC, but 0.33 USDC is required."

----------------------------------------------------------------------------
(* The catalog and the selections *)

\* C25: the catalog fetch ends loading; it either stores the catalog or, for
\* a non-2xx answer or a body without a `countries` array, leaves the country
\* list empty and shows the error notification; with an empty country list no
\* country can be selected, the confirmation dialog never opens and no
\* execution starts.
C25_CatalogFailureShown ==
    [][/\ (fetchPc # "done" /\ fetchPc' = "done") =>
            /\ ~isLoading'
            /\ \/ countries' = Catalog /\ UNCHANGED <<showErrorModal, errorMessage>>
               \/ /\ countries' = <<>>
                  /\ showErrorModal'
                  /\ errorMessage' = "Failed to load countries. Please try again later."
       /\ (fetchPc' = "done" /\ countries' = <<>>) =>
            /\ selectedCountry' = "" /\ selectedOperator' = "" /\ selectedAmount' = Null
            /\ ~showConfirmModal'
            /\ \A s \in Subs : subs'[s] = NoSub]_vars

\* the catalog could not be loaded, the notification was dismissed and Buy was
\* answered with the first validation message
C25_Witness ==
    /\ fetchPc = "done" /\ countries = <<>> /\ ~isLoading
    /\ errorMessage = MsgLoadFailed
    /\ alert = "Please select a country."
    /\ ~showConfirmModal

----------------------------------------------------------------------------
(* Form edits behind the confirmation dialog *)

\* no execution of handleConfirmedSubmit has ended yet
Unfinished == \A s \in 1..MaxInFlight : subs[s].pc # "done"

\* As Next, but the form controls are operated whenever they are enabled: they
\* stay in the DOM behind the confirmation dialog and are disabled only while
\* the catalog loads, so the keyboard reaches them while the dialog is open
\* and while a submission runs. The user submits once; wallet and chain stay
\* as they were at mount, the ledger reports a balance of 1.00 and no
\* allowance.
NextEdit ==
    \/ Responsive /\ Render
    \/ Responsive /\ fetchCountries
    \/ Responsive /\ Settled /\ Unfinished /\ ~view.showErrorModal /\ SelectCountry
    \/ Responsive /\ Settled /\ Unfinished /\ ~view.showErrorModal /\ SelectOperator
    \/ Responsive /\ Settled /\ Unfinished /\ ~view.showErrorModal /\ SelectAmount
    \/ Responsive /\ Settled /\ Unfinished /\ ~view.showErrorModal /\ InputPhone
    \/ Responsive /\ Settled /\ Unobstructed /\ Untouched /\ handleSubmitForm
    \/ Responsive /\ Settled /\ ClickEdit
    \/ Responsive /\ Settled /\ ClickDismiss
    \/ Responsive /\ Settled /\ Untouched /\ ClickConfirm
    \/ Responsive /\ \E s \in 1..MaxInFlight : Step(s) /\ PlainAnswers(s)'
    \/ AcknowledgeAlert

SpecEdit == Init /\ [][NextEdit]_vars

\* C27: the purchase intent is immutable once confirmation is requested: the
\* recipient phone of every fulfilment request consists of exactly 11 decimal
\* digits, whatever form edits happen while the dialog is open or the
\* submission is running.
C27_PostedPhoneValidated ==
    \A s \in Subs : \A i \in DOMAIN subs[s].posts :
        ElevenDigits(subs[s].posts[i].recipientPhone)

\* edits made while the submission runs do not reach the fulfilment request:
\* it carries the values of the render in which Confirm was activated
C27_ClosureValuesPosted ==
    \A s \in Subs : \A i \in DOMAIN subs[s].posts :
        /\ subs[s].posts[i].recipientPhone = subs[s].recipientPhone
        /\ subs[s].posts[i].operatorId = subs[s].selectedAmount.operator_id
        /\ subs[s].posts[i].amount = subs[s].selectedAmount.amount

\* a fulfilment request was issued while the form holds other values than
\* the request: the phone was edited while the submission was running
C27_EditedWhileRunning ==
    \E s \in Subs :
        /\ Posts(s) = 1 /\ subs[s].posts[1].recipientPhone = Phone11
        /\ recipientPhone = Phone10

----------------------------------------------------------------------------
(* The amount of a submission *)

\* the amount the price of the execution's catalog entry converts to
RequiredAmount(rec) ==
    ParseUnits(NumberToString(rec.selectedAmount.usdc_value), USDC_DECIMALS)

\* C28: one integer is used throughout a submission: the balance and the
\* allowance are compared with the required amount, the approval and the
\* transfer are requested for the required amount, and the approval's spender
\* and the transfer's recipient are the payment contract's address.
C28_OneAmountThroughout ==
    \A s \in Subs :
        LET rec == subs[s] IN
        /\ rec.amountInWei # -1 => rec.amountInWei = RequiredAmount(rec)
        /\ rec.balance # -1 =>
              (rec.balance < RequiredAmount(rec) <=>
                 (rec.outcome = "Failed" /\ rec.failedAt = "balanceOf"))
        /\ rec.amount # -1 => rec.amount = RequiredAmount(rec)
        /\ rec.allowance # -1 =>
              (rec.allowance < RequiredAmount(rec) <=> rec.approveArgs # <<>>)
        /\ rec.approveArgs # <<>> => rec.approveArgs = <<CONTRACT_ADDRESS, RequiredAmount(rec)>>
        /\ rec.transferArgs # <<>> => rec.transferArgs = <<CONTRACT_ADDRESS, RequiredAmount(rec)>>
        /\ Transfers(s) > 0 => rec.transferArgs # <<>>
        /\ Approvals(s) > 0 => rec.approveArgs # <<>>

\* an execution that approved and transferred 0.33: a balance of 1.00 and no
\* allowance
C28_Witness ==
    \E s \in Subs :
        /\ subs[s].amountInWei = 330000 /\ subs[s].balance = 1000000
        /\ subs[s].allowance = 0
        /\ subs[s].approveArgs = <<CONTRACT_ADDRESS, 330000>>
        /\ subs[s].transferArgs = <<CONTRACT_ADDRESS, 330000>>
        /\ Approvals(s) = 1 /\ Transfers(s) = 1

\* C29: after every step the selected amount is null or an entry that the
\* catalog lists for the selected country under the selected operator; a step
\* that changes the country leaves operator and amount cleared, and a step
\* that changes the operator leaves the amount cleared.
C29_SelectionConsistent ==
    [][/\ selectedAmount' # Null =>
            /\ selectedAmount' \in
                  SeqToSet(getOperatorAmounts(countries', selectedCountry', selectedOperator'))
            /\ selectedAmount'.network_operator = selectedOperator'
       /\ selectedCountry' # selectedCountry =>
            selectedOperator' = "" /\ selectedAmount' = Null
       /\ selectedOperator' # selectedOperator => selectedAmount' = Null]_vars

\* the operator has just been changed from MTN, with an MTN amount selected,
\* to Airtel: the amount is cleared while the page still shows the MTN amount
C29_Witness ==
    /\ selectedCountry = Nigeria /\ selectedOperator = "Airtel" /\ selectedAmount = Null
    /\ view.selectedOperator = "MTN" /\ view.selectedAmount = Mtn500

----------------------------------------------------------------------------
(* The contract-call revisions: payment through processPayment *)

\* the revisions of the component that pay by calling processPayment on the
\* payment contract: src/unnamed/part_000, src/unnamed/part_002 and the
\* BuyAirtime of src/app/components/Components.tsx
Variants == {"part_000", "part_002", "Components"}

\* part_000 and part_002 load the catalog and have the country, operator and
\* amount selects; Components.tsx has a fixed list of amounts and no catalog
HasCatalog(variant) == variant \in {"part_000", "part_002"}

\* the options of the amount select of Components.tsx
AmountOptions == {"", "100", "200", "500", "1000", "2000"}

MsgTransactionReverted == "Transaction was reverted"
MsgInsufficientFunds == "Insufficient funds. Please check your balance."
MsgConnectionError == "Network error. Please check your connection."

\* the message the catch block shows for the thrown value `e`: the default
\* for a value that is not an Error; for an Error part_000 classifies the
\* message, part_002 and Components.tsx show error.message
ContractReported(variant, e) ==
    IF ~e.isError THEN MsgUnsuccessful
    ELSE IF variant = "part_000"
    THEN IF Includes(e.message, "user rejected") THEN MsgRejected
         ELSE IF Includes(e.message, "insufficient funds") THEN MsgInsufficientFunds
         ELSE IF Includes(e.message, "network") THEN MsgConnectionError
         ELSE e.message
    ELSE e.message

\* the checks of handleSubmitForm, in the order of the code
ContractValidationAlert(p) ==
    IF p.variant = "Components"
    THEN IF p.amount = "" THEN "Please select an airtime amount."
         ELSE IF p.recipientPhone = <<>> THEN "Please enter recipient phone number."
         ELSE IF ~ElevenDigits(p.recipientPhone)
         THEN "Please enter a valid 11-digit phone number."
         ELSE NoAlert
    ELSE IF p.selectedCountry = "" THEN "Please select a country."
    ELSE IF p.selectedOperator = "" THEN "Please select an operator."
    ELSE IF p.selectedAmount = Null THEN "Please select an amount."
    ELSE IF p.recipientPhone = <<>> THEN "Please enter recipient phone number."
    ELSE IF ~ElevenDigits(p.recipientPhone) THEN "Please enter a valid 11-digit phone number."
    ELSE NoAlert

\* the confirmation dialog is in the DOM
ContractModalShown(p) ==
    /\ p.showConfirmModal
    /\ p.variant = "Components" \/ p.selectedAmount # Null

\* the JSON body of the POST to /send-topup, from the handler's closure
ContractTopupBody(p) ==
    IF p.variant = "Components"
    THEN [operatorId |-> "100", amount |-> p.closure.amount,
          recipientPhone |-> p.closure.recipientPhone, senderPhone |-> Phone11,
          recipientEmail |-> "miniapp@aitimeplus.xyz"]
    ELSE [operatorId |-> p.closure.selectedAmount.operator_id,
          amount |-> p.closure.selectedAmount.amount,
          currency |-> p.closure.selectedAmount.currency,
          recipientPhone |-> p.closure.recipientPhone, senderPhone |-> Phone11,
          recipientEmail |-> "miniapp@aitimeplus.xyz"]

contractFrame == UNCHANGED <<uiVars, view, fetchPc, alert, envVars, subs, activeTab>>

\* one of the revisions is the component on the page: its first render, after
\* which the mount effect of part_000 and part_002 has called fetchCountries
ContractMount ==
    /\ pay.variant = "none"
    /\ \E v \in Variants :
         pay' = [NoPay EXCEPT !.variant = v,
                              !.isLoading = HasCatalog(v),
                              !.fetchPc = IF HasCatalog(v) THEN "fetching" ELSE "none"]
    /\ contractFrame

\* the catch block of fetchCountries, then its finally
ContractFetchFails(p) ==
    pay' = [p EXCEPT !.fetchPc = "done", !.errorMessage = MsgLoadFailed,
                     !.showErrorModal = TRUE, !.isLoading = FALSE]

\* fetchCountries of part_000 and part_002: `await fetch(...)` settles
ContractFetchResponds ==
    /\ pay.fetchPc = "fetching"
    /\ \E rejected \in BOOLEAN, ok \in BOOLEAN :
         IF ~rejected /\ ok
         THEN pay' = [pay EXCEPT !.fetchPc = "json"]
         ELSE ContractFetchFails(pay)
    /\ contractFrame

\* fetchCountries of part_000 and part_002: `await res.json()` settles
ContractFetchParsed ==
    /\ pay.fetchPc = "json"
    /\ \E rejected \in BOOLEAN, body \in CatalogBodies :
         IF ~rejected /\ ValidCatalogBody(body)
         THEN pay' = [pay EXCEPT !.fetchPc = "done", !.countries = body.countries,
                                 !.isLoading = FALSE]
         ELSE ContractFetchFails(pay)
    /\ contractFrame

\* the form is reached while no dialog covers it and no submission runs
ContractFormOpen ==
    /\ pay.variant # "none"
    /\ ~ContractModalShown(pay) /\ ~pay.showErrorModal /\ ~pay.isSubmitting

\* onChange of the country select of part_000 and part_002
ContractSelectCountry ==
    /\ HasCatalog(pay.variant)
    /\ ~pay.isLoading
    /\ \E c \in {""} \cup {cn.name : cn \in SeqToSet(pay.countries)} :
         pay' = [pay EXCEPT !.selectedCountry = c, !.selectedOperator = "",
                            !.selectedAmount = Null]
    /\ contractFrame

\* onChange of the operator select of part_000 and part_002
ContractSelectOperator ==
    /\ HasCatalog(pay.variant)
    /\ pay.selectedCountry # "" /\ ~pay.isLoading
    /\ \E o \in {""} \cup {e.network_operator :
                  e \in SeqToSet(getSelectedCountryOperators(pay.countries,
                                                             pay.selectedCountry))} :
         pay' = [pay EXCEPT !.selectedOperator = o, !.selectedAmount = Null]
    /\ contractFrame

\* onChange of the amount select: Components.tsx stores the option's value;
\* part_000 and part_002 store the service found for it, or null
ContractSelectAmount ==
    /\ pay.variant # "none"
    /\ IF pay.variant = "Components"
       THEN \E v \in AmountOptions : pay' = [pay EXCEPT !.amount = v]
       ELSE /\ pay.selectedOperator # "" /\ ~pay.isLoading
            /\ LET offered == getOperatorAmounts(pay.countries, pay.selectedCountry,
                                                 pay.selectedOperator) IN
               \E v \in {""} \cup {ToString(e.amount) : e \in SeqToSet(offered)} :
                  pay' = [pay EXCEPT !.selectedAmount = FindAmount(offered, v)]
    /\ contractFrame

\* onChange of the phone input
ContractInputPhone ==
    /\ pay.variant # "none"
    /\ ~pay.isLoading
    /\ \E ph \in Phones : pay' = [pay EXCEPT !.recipientPhone = ph]
    /\ contractFrame

\* Buy: handleSubmitForm of the revisions
ContractSubmitForm ==
    /\ pay.variant # "none"
    /\ ~pay.isSubmitting /\ ~pay.isLoading
    /\ IF ContractValidationAlert(pay) = NoAlert
       THEN pay' = [pay EXCEPT !.showConfirmModal = TRUE] /\ UNCHANGED alert
       ELSE alert' = ContractValidationAlert(pay) /\ UNCHANGED pay
    /\ UNCHANGED <<uiVars, view, fetchPc, envVars, subs, activeTab>>

\* Edit: setShowConfirmModal(false)
ContractEdit ==
    /\ ContractModalShown(pay) /\ ~pay.isSubmitting
    /\ pay' = [pay EXCEPT !.showConfirmModal = FALSE]
    /\ contractFrame

\* Dismiss: setShowErrorModal(false)
ContractDismiss ==
    /\ pay.showErrorModal
    /\ pay' = [pay EXCEPT !.showErrorModal = FALSE]
    /\ contractFrame

\* catch and finally of handleConfirmedSubmit
ContractFails(p, e) ==
    pay' = [p EXCEPT !.pc = "done", !.thrown = e,
                     !.errorMessage = ContractReported(p.variant, e),
                     !.showConfirmModal = FALSE, !.showErrorModal = TRUE,
                     !.isSubmitting = FALSE]

\* part_000 tests receipt.status === 'reverted' and throws; part_002 and
\* Components.tsx await the receipt and do not read it
ContractRevertedThrows(variant, status) == variant = "part_000" /\ Reverted(status)

\* Confirm: handleConfirmedSubmit up to its first await
ContractConfirmedSubmit ==
    /\ ContractModalShown(pay) /\ ~pay.isSubmitting
    /\ LET p == [pay EXCEPT !.isSubmitting = TRUE, !.trace = <<>>, !.posts = <<>>,
                            !.thrown = NoError, !.txHash = NoHash, !.receipt = "none",
                            !.response = "none", !.amountInWei = -1,
                            !.closure = [selectedAmount |-> pay.selectedAmount,
                                         amount |-> pay.amount,
                                         recipientPhone |-> pay.recipientPhone]]
           \* the string handed to parseUnits: usdcValue.toString() in part_000
           \* and part_002, the selected option in Components.tsx
           value == IF p.variant = "Components" THEN p.amount
                    ELSE NumberToString(p.selectedAmount.usdc_value)
       IN IF ~wallet.hasClient \/ ~wallet.isConnected
          THEN ContractFails(p, Error(MsgWalletNotConnected))
          ELSE IF ~wallet.publicClient
          THEN ContractFails(p, Error("Public client not available"))
          ELSE IF ~ValidDecimalNumber(value)
          THEN ContractFails(p, Error(MsgInvalidDecimal(value)))
          ELSE LET wei == ParseUnits(value, USDC_DECIMALS)
               IN IF p.variant = "part_000"
                  THEN pay' = [p EXCEPT !.amountInWei = wei, !.pc = "simulate",
                                        !.trace = <<"simulate processPayment">>]
                  ELSE pay' = [p EXCEPT !.amountInWei = wei, !.pc = "write",
                                        !.trace = <<"write processPayment">>]
    /\ contractFrame

\* await publicClient.simulateContract(processPayment): part_000 only
ContractSimulateReturns ==
    /\ pay.pc = "simulate"
    /\ \/ pay' = [pay EXCEPT !.pc = "write", !.trace = Append(@, "write processPayment")]
       \/ \E e \in SimulateErrors \cup ReadErrors : ContractFails(pay, e)
    /\ contractFrame

\* await walletClient.writeContract(processPayment)
ContractWriteReturns ==
    /\ pay.pc = "write"
    /\ \/ pay' = [pay EXCEPT !.pc = "receipt", !.txHash = "0xpayment",
                             !.trace = Append(@, "wait processPayment")]
       \/ \E e \in WriteErrors : ContractFails(pay, e)
    /\ contractFrame

\* await publicClient.waitForTransactionReceipt({ hash: txHash }), then the POST
ContractReceiptReturns ==
    /\ pay.pc = "receipt"
    /\ \/ \E status \in Receipts :
            LET p == [pay EXCEPT !.receipt = status] IN
            IF ContractRevertedThrows(p.variant, status)
            THEN ContractFails(p, Error(MsgTransactionReverted))
            ELSE pay' = [p EXCEPT !.pc = "topup", !.trace = Append(@, "post"),
                                  !.posts = Append(@, ContractTopupBody(p))]
       \/ ContractFails([pay EXCEPT !.receipt = "threw"], Error(MsgReceiptTimeout))
    /\ contractFrame

\* await fetch(/send-topup)
ContractTopupReturns ==
    /\ pay.pc = "topup"
    /\ \/ pay' = [pay EXCEPT !.response = "ok", !.pc = "okBody"]
       \/ LET p == [pay EXCEPT !.response = "not ok"] IN
          IF p.variant = "part_000"
          THEN pay' = [p EXCEPT !.pc = "errorBody"]
          ELSE ContractFails(p, Error(MsgResponseNotOk))
       \/ \E e \in FetchErrors : ContractFails([pay EXCEPT !.response = "threw"], e)
    /\ contractFrame

\* part_000, !response.ok: await response.json(); throw new Error(errorData.error || default)
ContractErrorBodyReturns ==
    /\ pay.pc = "errorBody"
    /\ \/ \E body \in ErrorBodies :
            ContractFails(pay, Error(IF body.hasError /\ body.error # "" THEN body.error
                                     ELSE MsgResponseNotOk))
       \/ \E e \in JsonErrors : ContractFails(pay, e)
    /\ contractFrame

\* response.ok: await response.json(); setShowConfirmModal(false);
\* setActiveTab("success"), which is a call of undefined when the page passes
\* no setActiveTab: the TypeError is caught by the catch block
ContractOkBodyReturns ==
    /\ pay.pc = "okBody"
    /\ \/ IF setActiveTabProp = "function"
          THEN pay' = [pay EXCEPT !.pc = "done", !.showConfirmModal = FALSE,
                                  !.activeTab = "success", !.isSubmitting = FALSE]
          ELSE ContractFails(pay, Error(MsgNotAFunction))
       \/ \E e \in JsonErrors : ContractFails(pay, e)
    /\ contractFrame

\* A page that shows one of the contract-call revisions, with the wallet
\* session as it is at mount; the user acts on the page as rendered from the
\* current state and reaches the form only while no dialog covers it, except
\* for the phone input, which is also typed into while a submission runs.
NextContract ==
    \/ ContractMount
    \/ Responsive /\ ContractFetchResponds
    \/ Responsive /\ ContractFetchParsed
    \/ Responsive /\ ContractFormOpen /\ ContractSelectCountry
    \/ Responsive /\ ContractFormOpen /\ ContractSelectOperator
    \/ Responsive /\ ContractFormOpen /\ ContractSelectAmount
    \/ Responsive /\ ContractFormOpen /\ ContractInputPhone
    \/ Responsive /\ pay.isSubmitting /\ ContractInputPhone
    \/ Responsive /\ ContractFormOpen /\ ContractSubmitForm
    \/ Responsive /\ ContractEdit
    \/ Responsive /\ ContractDismiss
    \/ Responsive /\ ContractConfirmedSubmit
    \/ Responsive /\ ContractSimulateReturns
    \/ Responsive /\ ContractWriteReturns
    \/ Responsive /\ ContractReceiptReturns
    \/ Responsive /\ ContractTopupReturns
    \/ Responsive /\ ContractErrorBodyReturns
    \/ Responsive /\ ContractOkBodyReturns
    \/ AcknowledgeAlert

SpecContract == Init /\ [][NextContract]_vars

\* C26: in the contract-call revisions the fulfilment POST is issued only
\* after the receipt of the processPayment transaction has been obtained with
\* a status that is not reverted; a reverted receipt never leads to a POST.
C26_PostOnlyAfterConfirmedPayment ==
    pay.posts # <<>> => pay.receipt = "success"

\* part_000, which tests the receipt: a POST after a receipt with status success
C26_CheckedRevisionPosts ==
    pay.variant = "part_000" /\ pay.posts # <<>> /\ pay.receipt = "success"

\* the revision that tests the receipt never lets a reverted receipt through
C26_CheckedRevisionHolds ==
    pay.variant = "part_000" => (pay.posts # <<>> => pay.receipt = "success")

====
